---- MODULE Spec2Model ----
(***************************************************************************)
(* Picklist -> quotation reconciliation pipeline (app/converter.py) and    *)
(* its idempotency ledger (app/database.py, SQLiteManager), driven by the  *)
(* request handlers of app/main.py.  A cycle of the polling service        *)
(* (app/poller.py) is one call of convert_all_pending.                     *)
(*                                                                         *)
(* Tables are sequences of rows in insertion order.  Strings that the code *)
(* formats or parses (quotation numbers) are sequences of one-character    *)
(* strings.  Money is kept in whole units.                                 *)
(***************************************************************************)
EXTENDS Integers, Sequences, FiniteSets, TLC

VARIABLES
    config,                 \* SQLite table config, row id = 1
    quotation_defaults,     \* SQLite table quotation_defaults, row id = 1
    conversion_tracking,    \* SQLite table conversion_tracking (the ledger)
    archived_picklists,     \* SQLite table archived_picklists (pick_list_id)
    Items_tbl,              \* BackOffice dbo.Items_tbl (primary catalog)
    Quotations_tbl,         \* BackOffice dbo.Quotations_tbl
    QuotationsDetails_tbl,  \* BackOffice dbo.QuotationsDetails_tbl
    pick_lists,             \* Shipper dbo.pick_lists (ids, in query order)
    inflight,               \* per thread: the convert_picklist call it is in
    poller                  \* the PollingService object and its loop threads

vars == <<config, quotation_defaults, conversion_tracking, archived_picklists,
          Items_tbl, Quotations_tbl, QuotationsDetails_tbl, pick_lists, inflight, poller>>

(***************************************************************************)
(* Bounds of the model.                                                    *)
(***************************************************************************)
\* quotations the converter may create in one behaviour
MaxQuotations == 2

\* loop threads the polling service may create in one behaviour
MaxLoops == 2

\* the rows the catalog may grow to, and the longest list of barcodes sent
\* to Healing Sync
MaxItems == 5

MaxBarcodes == 2

\* the quotations made by hand that a run may find in the BackOffice database
MaxLegacy == 2

(***************************************************************************)
(* Values.                                                                 *)
(***************************************************************************)
\* SQL NULL / Python None in a numeric column
NULL == -1
\* an absent or empty barcode: `not barcode` is true (converter.py:416)
NoBarcode == ""

Range(s) == {s[i] : i \in DOMAIN s}

Digit == <<"0", "1", "2", "3", "4", "5", "6", "7", "8", "9">>

\* str(n) (converter.py:519)
RECURSIVE Str(_)
Str(n) ==
    IF n < 0 THEN <<"-">> \o Str(0 - n)
    ELSE IF n < 10 THEN <<Digit[n + 1]>>
    ELSE Str(n \div 10) \o <<Digit[(n % 10) + 1]>>

\* a string of decimal digits only
PurelyNumeric(s) == Len(s) > 0 /\ \A i \in DOMAIN s : s[i] \in Range(Digit)

\* ISNUMERIC(QuotationNumber) = 1, for the strings the model uses: digits,
\* with or without a sign in front.  (SQL Server also answers 1 for currency
\* signs, separators and exponents, which CAST AS BIGINT rejects; the model
\* has no such number.)
ISNUMERIC(s) ==
    /\ Len(s) > 0
    /\ PurelyNumeric(IF s[1] \in {"-", "+"} THEN Tail(s) ELSE s)

DigitValue(c) == (CHOOSE d \in DOMAIN Digit : Digit[d] = c) - 1

\* CAST(QuotationNumber AS BIGINT)
RECURSIVE CastBigint(_)
CastBigint(s) ==
    IF Len(s) = 0 THEN 0
    ELSE IF s[1] = "-" THEN 0 - CastBigint(Tail(s))
    ELSE IF s[1] = "+" THEN CastBigint(Tail(s))
    ELSE 10 * CastBigint(SubSeq(s, 1, Len(s) - 1)) + DigitValue(s[Len(s)])

\* PicklistConverter._truncate_string
TruncateString(value, max_length) ==
    IF Len(value) > max_length THEN SubSeq(value, 1, max_length) ELSE value

Max(S) == CHOOSE x \in S : \A y \in S : y <= x

\* sum of the field ExtendedPrice over a sequence of detail rows
RECURSIVE SumExtendedPrice(_)
SumExtendedPrice(rows) ==
    IF rows = <<>> THEN 0
    ELSE rows[1].ExtendedPrice + SumExtendedPrice(Tail(rows))

(***************************************************************************)
(* The external, read-only data: the shipper database and the inventory    *)
(* (healing) database, and the customers of the BackOffice database.       *)
(***************************************************************************)
\* the picklists the shipper database may hold
AllPicklistIds == {1, 2, 3, 4}

\* the contents of dbo.pick_lists a run may start from: any two picklists
ShipperContents ==
    {<<a, b>> : a \in AllPicklistIds, b \in AllPicklistIds} \cap
    {s \in Seq(AllPicklistIds) : Len(s) = 2 /\ s[1] < s[2]}

\* dbo.pick_list_products.  amount 0 stands for 0 or NULL (ISNULL(amount,0)).
\*   picklist 1: every barcode is in the catalog, one barcode twice, one
\*               line of quantity zero
\*   picklist 2: line B1 matches, B2 is in no catalog, B3 has no barcode,
\*               B4 is only in the inventory database
\*   picklist 3: the barcode is only in the inventory database
\*   picklist 4: no line of quantity > 0
pick_list_products == <<
    [id_pick_list |-> 1, barcode |-> "123", name |-> "A1", amount |-> 3],
    [id_pick_list |-> 1, barcode |-> "123", name |-> "A2", amount |-> 2],
    [id_pick_list |-> 1, barcode |-> "456", name |-> "A3", amount |-> 1],
    [id_pick_list |-> 1, barcode |-> "999", name |-> "A4", amount |-> 0],
    [id_pick_list |-> 2, barcode |-> "123", name |-> "B1", amount |-> 1],
    [id_pick_list |-> 2, barcode |-> "999", name |-> "B2", amount |-> 1],
    [id_pick_list |-> 2, barcode |-> NoBarcode, name |-> "B3", amount |-> 1],
    [id_pick_list |-> 2, barcode |-> "777", name |-> "B4", amount |-> 1],
    [id_pick_list |-> 3, barcode |-> "777", name |-> "C1", amount |-> 2],
    [id_pick_list |-> 4, barcode |-> "123", name |-> "D1", amount |-> 0] >>

\* the non-identity columns of BackOffice dbo.Items_tbl (converter.py:239-246)
backoffice_columns == {"ProductUPC", "UnitPrice", "UnitCost"}

\* Inventory dbo.Items_tbl: the healing source, never written
Inventory_Items_tbl == <<
    [ProductUPC |-> "777", UnitPrice |-> 5, UnitCost |-> 2, Bin |-> 9],
    [ProductUPC |-> "888", UnitPrice |-> 7, UnitCost |-> 3, Bin |-> 4],
    [ProductUPC |-> "123", UnitPrice |-> 11, UnitCost |-> 6, Bin |-> 1] >>

\* BackOffice dbo.Items_tbl as the run finds it
InitialItems == <<
    [ProductUPC |-> "123", UnitPrice |-> 10, UnitCost |-> 6],
    [ProductUPC |-> "456", UnitPrice |-> 4, UnitCost |-> NULL] >>

\* CustomerID of the rows of BackOffice dbo.Customers_tbl
Customers_tbl == {1}

\* customer ids the settings page may store
CustomerIds == {1, 2}

\* a quotation made by hand before the run, with a number that is not numeric
LegacyQuotations == <<
    [QuotationID |-> 1, QuotationNumber |-> <<"Q", "7">>, QuotationTitle |-> 0,
     CustomerID |-> 1, QuotationTotal |-> 0] >>

(***************************************************************************)
(* Ledger (SQLiteManager).                                                 *)
(***************************************************************************)
NoError == [kind |-> "None", items |-> <<>>]

Error(kind) == [kind |-> kind, items |-> <<>>]

\* retry_on_locked(max_retries=10, ...) on log_conversion (database.py:260)
max_retries == 10

\* the loop of retry_on_locked's wrapper, from attempt `attempt` on, when the
\* store answers "database is locked" to the first locked_times calls:
\* "ok" when a call goes through, "raise" when the error is re-raised
RECURSIVE RetryOnLocked(_, _)
RetryOnLocked(attempt, locked_times) ==
    IF attempt < locked_times
    THEN IF attempt < max_retries - 1
         THEN RetryOnLocked(attempt + 1, locked_times)
         ELSE "raise"
    ELSE "ok"

\* how often the store is busy under each injected ledger fault
LockedTimes(fault) ==
    CASE fault = "ledger_locked" -> max_retries
      [] fault = "ledger_busy"   -> max_retries - 1
      [] OTHER                   -> 0

\* variant: conversion_tracking declared without UNIQUE on pick_list_id
UniqueViolation_NoConstraint(table, pick_list_id) == FALSE

\* the column constraint pick_list_id INTEGER UNIQUE of conversion_tracking:
\* an INSERT of a second row for the same picklist raises IntegrityError
UniqueViolation(table, pick_list_id) ==
    \E r \in table : r.pick_list_id = pick_list_id

\* variant: the row is written as a success whatever the outcome
log_conversion_AlwaysSuccess(table, pick_list_id, success, quotation_id, quotation_number, error_message, fault) ==
    LET row == [pick_list_id |-> pick_list_id, quotation_id |-> quotation_id,
                quotation_number |-> quotation_number, success |-> TRUE,
                error_message |-> error_message]
    IN  IF fault = "ledger_error" \/ RetryOnLocked(0, LockedTimes(fault)) = "raise"
        THEN [raised |-> TRUE, table |-> table]
        ELSE IF UniqueViolation(table, pick_list_id)
        THEN [raised |-> TRUE, table |-> table]
        ELSE [raised |-> FALSE, table |-> table \cup {row}]

\* SQLiteManager.log_conversion: the new table, and whether the call raised
log_conversion(table, pick_list_id, success, quotation_id, quotation_number, error_message, fault) ==
    LET row == [pick_list_id |-> pick_list_id, quotation_id |-> quotation_id,
                quotation_number |-> quotation_number, success |-> success,
                error_message |-> error_message]
    IN  IF fault = "ledger_error" \/ RetryOnLocked(0, LockedTimes(fault)) = "raise"
        THEN [raised |-> TRUE, table |-> table]
        ELSE IF UniqueViolation(table, pick_list_id)
        THEN [raised |-> TRUE, table |-> table]
        ELSE [raised |-> FALSE, table |-> table \cup {row}]

\* SQLiteManager.get_converted_picklist_ids
get_converted_picklist_ids(table) ==
    {r.pick_list_id : r \in {x \in table : x.success}}

\* SQLiteManager.get_archived_picklist_ids
get_archived_picklist_ids(archived) == archived

(***************************************************************************)
(* Pending set and picklist lines (PicklistConverter).                     *)
(***************************************************************************)
\* variant: the archived ids are fetched but not filtered out
get_pending_picklists_KeepArchived(all_picklists, table, archived) ==
    LET converted_ids == get_converted_picklist_ids(table)
    IN  [i \in DOMAIN all_picklists |->
            [id |-> all_picklists[i], is_converted |-> all_picklists[i] \in converted_ids]]

\* PicklistConverter.get_pending_picklists: rows [id, is_converted]
get_pending_picklists(all_picklists, table, archived) ==
    LET converted_ids == get_converted_picklist_ids(table)
        archived_ids  == get_archived_picklist_ids(archived)
        kept == SelectSeq(all_picklists, LAMBDA id : id \notin archived_ids)
    IN  [i \in DOMAIN kept |->
            [id |-> kept[i], is_converted |-> kept[i] \in converted_ids]]

\* variant: the query without its condition on amount
get_picklist_products_AnyAmount(picklist_id) ==
    SelectSeq(pick_list_products, LAMBDA r : r.id_pick_list = picklist_id)

\* PicklistConverter.get_picklist_products
get_picklist_products(picklist_id) ==
    SelectSeq(pick_list_products,
              LAMBDA r : r.id_pick_list = picklist_id /\ r.amount > 0)

(***************************************************************************)
(* Catalog queries and Healing Sync.                                       *)
(***************************************************************************)
\* SELECT ... FROM dbo.Items_tbl WHERE ProductUPC IN (barcodes)
SelectItems(table, barcodes) ==
    SelectSeq(table, LAMBDA r : r.ProductUPC \in Range(barcodes))

\* {row['ProductUPC']: row for row in results}: the last row of a barcode wins
RowsByBarcode(rows) ==
    [b \in {rows[i].ProductUPC : i \in DOMAIN rows} |->
        rows[Max({i \in DOMAIN rows : rows[i].ProductUPC = b})]]

\* list(d.keys()) of the dict built from rows: first occurrence order
RECURSIVE DictKeys(_)
DictKeys(rows) ==
    IF rows = <<>> THEN <<>>
    ELSE LET front == DictKeys(SubSeq(rows, 1, Len(rows) - 1))
             b == rows[Len(rows)].ProductUPC
         IN  IF b \in Range(front) THEN front ELSE Append(front, b)

\* variant: the switch inventory_enabled is not looked at
InventoryConfigured_IgnoreSwitch(cfg) == cfg.present

\* PicklistConverter.get_inventory_db_manager returns a manager
InventoryConfigured(cfg) == cfg.present /\ cfg.inventory_enabled

\* PicklistConverter.lookup_in_inventory: dict barcode -> record ({} when the
\* inventory is not configured or the query raises)
lookup_in_inventory(cfg, barcodes, fault) ==
    IF ~InventoryConfigured(cfg) \/ fault = "inventory_down"
    THEN <<>>
    ELSE RowsByBarcode(SelectItems(Inventory_Items_tbl, barcodes))

\* the keys of lookup_in_inventory's result, in result order
InventoryKeys(cfg, barcodes, fault) ==
    IF ~InventoryConfigured(cfg) \/ fault = "inventory_down"
    THEN <<>>
    ELSE DictKeys(SelectItems(Inventory_Items_tbl, barcodes))

\* the row INSERTed for an inventory record: the columns both sides have
InsertedRow(product) ==
    [c \in backoffice_columns |-> IF c \in DOMAIN product THEN product[c] ELSE NULL]

\* cursor.execute(insert_query, values) raises: under the fault "heal_insert"
\* BackOffice rejects the record of barcode 777, and no other
InsertRaises(barcode, fault) == fault = "heal_insert" /\ barcode = "777"

\* a variant that rewrites the row of a barcode the catalog already has
InsertInto_Upsert(items, row) ==
    IF \E i \in DOMAIN items : items[i].ProductUPC = row.ProductUPC
    THEN [i \in DOMAIN items |->
            IF items[i].ProductUPC = row.ProductUPC THEN row ELSE items[i]]
    ELSE Append(items, row)

\* INSERT INTO dbo.Items_tbl (...) VALUES (...) and conn.commit(): a new row,
\* whatever rows the table holds
InsertInto(items, row) == Append(items, row)

\* a variant whose first failed INSERT ends the loop
RECURSIVE CopyLoop_AbortOnFailure(_, _, _, _)
CopyLoop_AbortOnFailure(barcodes, inventory_products, fault, acc) ==
    IF barcodes = <<>> THEN acc
    ELSE LET barcode == Head(barcodes)
             rest == Tail(barcodes)
         IN  IF barcode \notin DOMAIN inventory_products
             THEN CopyLoop_AbortOnFailure(rest, inventory_products, fault,
                    [acc EXCEPT !.failed = Append(@, barcode)])
             ELSE IF InsertRaises(barcode, fault)
             THEN [acc EXCEPT !.failed = Append(@, barcode)]
             ELSE CopyLoop_AbortOnFailure(rest, inventory_products, fault,
                    [acc EXCEPT !.copied = Append(@, barcode),
                                !.items = InsertInto(@, InsertedRow(inventory_products[barcode]))])

\* Step 3 of copy_products_from_inventory: one INSERT and commit per barcode
\* of the list as given, each in a try of its own
RECURSIVE CopyLoop(_, _, _, _)
CopyLoop(barcodes, inventory_products, fault, acc) ==
    IF barcodes = <<>> THEN acc
    ELSE LET barcode == Head(barcodes)
             rest == Tail(barcodes)
         IN  IF barcode \notin DOMAIN inventory_products
             THEN CopyLoop(rest, inventory_products, fault,
                    [acc EXCEPT !.failed = Append(@, barcode)])
             ELSE LET product == inventory_products[barcode]
                      common_columns == backoffice_columns \cap DOMAIN product
                  IN  IF common_columns = {} \/ InsertRaises(barcode, fault)
                      THEN CopyLoop(rest, inventory_products, fault,
                             [acc EXCEPT !.failed = Append(@, barcode)])
                      ELSE CopyLoop(rest, inventory_products, fault,
                             [acc EXCEPT !.copied = Append(@, barcode),
                                         !.items = InsertInto(@, InsertedRow(product))])

\* PicklistConverter.copy_products_from_inventory; has_lists is FALSE when
\* the result carries only 'success' and 'error'
copy_products_from_inventory(cfg, items, barcodes, fault) ==
    LET nothing == [has_lists |-> FALSE, copied |-> <<>>, failed |-> <<>>,
                    items |-> items]
        inventory_products == lookup_in_inventory(cfg, barcodes, fault)
    IN  IF ~cfg.present \/ ~InventoryConfigured(cfg) THEN nothing
        ELSE IF fault = "heal_schema" THEN nothing
        ELSE IF DOMAIN inventory_products = {} THEN nothing
        ELSE CopyLoop(barcodes, inventory_products, fault,
                      [has_lists |-> TRUE, copied |-> <<>>, failed |-> <<>>,
                       items |-> items])

\* PicklistConverter.auto_sync_from_inventory
auto_sync_from_inventory(cfg, items, missing_barcodes, fault) ==
    LET none_synced == [synced_count |-> 0, failed_count |-> Len(missing_barcodes),
                        synced_barcodes |-> <<>>,
                        failed_barcodes |-> missing_barcodes, items |-> items]
        inventory_products == lookup_in_inventory(cfg, missing_barcodes, fault)
        found_barcodes == InventoryKeys(cfg, missing_barcodes, fault)
        copy_result == copy_products_from_inventory(cfg, items, found_barcodes, fault)
        synced_barcodes == copy_result.copied
        failed_to_copy == copy_result.failed
        not_in_inventory ==
            SelectSeq(missing_barcodes, LAMBDA bc : bc \notin DOMAIN inventory_products)
        all_failed == failed_to_copy \o not_in_inventory
    IN  IF missing_barcodes = <<>>
        THEN [none_synced EXCEPT !.failed_count = 0]
        ELSE IF ~InventoryConfigured(cfg) THEN none_synced
        ELSE IF DOMAIN inventory_products = {} THEN none_synced
        ELSE [synced_count |-> Len(synced_barcodes), failed_count |-> Len(all_failed),
              synced_barcodes |-> synced_barcodes, failed_barcodes |-> all_failed,
              items |-> copy_result.items]

(***************************************************************************)
(* Quotation Builder (PicklistConverter.create_quotation).                 *)
(***************************************************************************)
\* f"Product '{name}' has no barcode"
NoBarcodeMsg(product) == <<"has no barcode", product.name>>

\* f"Barcode '{barcode}' (Product: {name})"
BarcodeMsg(product) == <<"Barcode", product.barcode, product.name>>

\* the entries of unmatched_barcodes of the first pass (Steps 1 and 3): the
\* lines without a barcode first, then the lines whose barcode has no item
FirstPassUnmatched(products, barcode_to_item) ==
    LET without == SelectSeq(products, LAMBDA p : p.barcode = NoBarcode)
        missing == SelectSeq(products, LAMBDA p :
                       p.barcode # NoBarcode /\ p.barcode \notin DOMAIN barcode_to_item)
    IN  [i \in DOMAIN without |-> NoBarcodeMsg(without[i])]
        \o [i \in DOMAIN missing |-> BarcodeMsg(missing[i])]

\* variant: the re-match loop skips the lines without a barcode
RematchUnmatched_BarcodedOnly(products, barcode_to_item) ==
    LET left == SelectSeq(products, LAMBDA p :
                    p.barcode # NoBarcode /\ p.barcode \notin DOMAIN barcode_to_item)
    IN  [i \in DOMAIN left |-> BarcodeMsg(left[i])]

\* the entries of unmatched_barcodes of the re-match loop, in line order
RematchUnmatched(products, barcode_to_item) ==
    LET left == SelectSeq(products, LAMBDA p :
                    p.barcode = NoBarcode \/ p.barcode \notin DOMAIN barcode_to_item)
    IN  [i \in DOMAIN left |->
            IF left[i].barcode = NoBarcode THEN NoBarcodeMsg(left[i])
            ELSE BarcodeMsg(left[i])]

\* matched_products: the lines whose barcode has an item, with that item
MatchedProducts(products, barcode_to_item) ==
    LET hit == SelectSeq(products, LAMBDA p :
                   p.barcode # NoBarcode /\ p.barcode \in DOMAIN barcode_to_item)
    IN  [i \in DOMAIN hit |->
            [pick_list_product |-> hit[i], item |-> barcode_to_item[hit[i].barcode]]]

\* variant: the conversion goes on with the lines that matched
GateFails_UnlessSomeMatched(unmatched_barcodes, matched_products) ==
    unmatched_barcodes # <<>> /\ matched_products = <<>>

\* the gate `if unmatched_barcodes:` (converter.py:504)
GateFails(unmatched_barcodes, matched_products) == unmatched_barcodes # <<>>

\* PicklistConverter.get_next_quotation_number
get_next_quotation_number(quotations) ==
    LET numeric == {i \in DOMAIN quotations : ISNUMERIC(quotations[i].QuotationNumber)}
        max_number == IF numeric = {} THEN 0
                      ELSE Max({CastBigint(quotations[i].QuotationNumber) : i \in numeric})
    IN  max_number + 1

\* item.get(column, 0) or 0
ValueOrZero(v) == IF v = NULL THEN 0 ELSE v

\* variant: the quantity is left out of the extended value
Extended_UnitOnly(qty, unit_value) == unit_value

\* extended_price = qty * unit_price, extended_cost = qty * unit_cost
Extended(qty, unit_value) == qty * unit_value

\* variant: the original price of the row is left at zero
DetailRow_NoOriginalPrice(quotation_id, matched) ==
    LET qty == matched.pick_list_product.amount
        unit_price == ValueOrZero(matched.item.UnitPrice)
        unit_cost == ValueOrZero(matched.item.UnitCost)
    IN  [QuotationID |-> quotation_id, ProductUPC |-> matched.item.ProductUPC,
         Qty |-> qty, UnitPrice |-> unit_price, OriginalPrice |-> 0,
         UnitCost |-> unit_cost, ExtendedPrice |-> Extended(qty, unit_price),
         ExtendedCost |-> Extended(qty, unit_cost)]

\* the row of QuotationsDetails_tbl for one matched line (converter.py:568-624)
DetailRow(quotation_id, matched) ==
    LET qty == matched.pick_list_product.amount
        unit_price == ValueOrZero(matched.item.UnitPrice)
        unit_cost == ValueOrZero(matched.item.UnitCost)
    IN  [QuotationID |-> quotation_id, ProductUPC |-> matched.item.ProductUPC,
         Qty |-> qty, UnitPrice |-> unit_price, OriginalPrice |-> unit_price,
         UnitCost |-> unit_cost, ExtendedPrice |-> Extended(qty, unit_price),
         ExtendedCost |-> Extended(qty, unit_cost)]

\* SELECT ISNULL(SUM(ExtendedPrice), 0) ... WHERE QuotationID = quotation_id
QuotationTotalOf(details, quotation_id) ==
    SumExtendedPrice(SelectSeq(details, LAMBDA r : r.QuotationID = quotation_id))

\* variant: the number is computed again by the INSERT itself
NumberAtInsert_Reread(read_number, quotations) ==
    Str(get_next_quotation_number(quotations))

\* the QuotationNumber the INSERT of the header carries (converter.py:525-536):
\* the string made at converter.py:519, whatever the table holds by then
NumberAtInsert(read_number, quotations) == read_number

\* the statements of the builder's transaction that had run when the step
\* `fault` raised (all of them when no step raises): uncommitted tables
NumberedStatements(quotations, details, picklist_id, matched_products, customer_id, fault, read_number) ==
    LET quotation_number == NumberAtInsert(read_number, quotations)
        quotation_id == Len(quotations) + 1
        header == [QuotationID |-> quotation_id,
                   QuotationNumber |-> TruncateString(quotation_number, 20),
                   QuotationTitle |-> picklist_id, CustomerID |-> customer_id,
                   QuotationTotal |-> NULL]
        n == Len(matched_products)
        rows == [i \in 1..n |-> DetailRow(quotation_id, matched_products[i])]
        inserted == CASE fault \in {"customer", "number", "header", "detail1"} -> 0
                      [] fault = "detailN" -> n - 1
                      [] OTHER -> n
        d1 == details \o SubSeq(rows, 1, inserted)
        q0 == IF fault \in {"customer", "number", "header"} THEN quotations
              ELSE Append(quotations, header)
        q1 == IF fault \in {"customer", "number", "header", "detail1", "detailN", "total"}
              THEN q0
              ELSE [q0 EXCEPT ![quotation_id].QuotationTotal =
                                  QuotationTotalOf(d1, quotation_id)]
    IN  [quotations |-> q1, details |-> d1, quotation_id |-> quotation_id,
         quotation_number |-> quotation_number]

\* the transaction of a builder that nothing interrupts between its read of
\* the next number and its INSERT
BuilderStatements(quotations, details, picklist_id, matched_products, customer_id, fault) ==
    NumberedStatements(quotations, details, picklist_id, matched_products,
                       customer_id, fault, Str(get_next_quotation_number(quotations)))

\* variant: a connection in autocommit mode, every statement is kept
CloseConnection_Autocommit(before, pending, committed) == pending

\* SQLServerManager.get_connection's `finally: conn.close()`: what the
\* database holds once the connection is closed, by whether commit() ran
CloseConnection(before, pending, committed) ==
    IF committed THEN pending ELSE before

BuilderFaults == {"customer", "number", "header", "detail1", "detailN", "total", "commit"}

\* Step 2 of create_quotation (converter.py:421-437): the batch query of the
\* catalog by the barcodes of the lines, as a dict barcode -> item
BatchQuery(items, products) ==
    LET with_barcode == SelectSeq(products, LAMBDA p : p.barcode # NoBarcode)
        barcodes_to_check == [i \in DOMAIN with_barcode |-> with_barcode[i].barcode]
    IN  IF barcodes_to_check = <<>> THEN <<>>
        ELSE RowsByBarcode(SelectItems(items, barcodes_to_check))

\* variant: the barcodes of all the lines are escalated, matched or not
MissingBarcodes_AllBarcodes(products, barcode_to_item) ==
    LET barcoded == SelectSeq(products, LAMBDA p : p.barcode # NoBarcode)
    IN  [i \in DOMAIN barcoded |-> barcoded[i].barcode]

\* variant: every line that has no item is escalated, barcode or not
MissingBarcodes_AnyLine(products, barcode_to_item) ==
    LET missing_lines == SelectSeq(products, LAMBDA p :
                             p.barcode \notin DOMAIN barcode_to_item)
    IN  [i \in DOMAIN missing_lines |-> missing_lines[i].barcode]

\* missing_barcodes of the first pass (converter.py:439-454), in line order
MissingBarcodes(products, barcode_to_item) ==
    LET missing_lines == SelectSeq(products, LAMBDA p :
                             p.barcode # NoBarcode /\ p.barcode \notin DOMAIN barcode_to_item)
    IN  [i \in DOMAIN missing_lines |-> missing_lines[i].barcode]

\* variant: the re-queried items are not put into the dict
MergeSynced_Dropped(barcode_to_item, synced_items) == barcode_to_item

\* `for item in synced_items: barcode_to_item[item['ProductUPC']] = item`
\* (converter.py:477-478)
MergeSynced(barcode_to_item, synced_items) ==
    [b \in DOMAIN barcode_to_item \cup DOMAIN synced_items |->
        IF b \in DOMAIN synced_items THEN synced_items[b] ELSE barcode_to_item[b]]

\* variant: the result of get_customer_data is not tested
CustomerExists_Unchecked(customer_id) == TRUE

\* get_customer_data returns a row (converter.py:511-513)
CustomerExists(customer_id) == customer_id \in Customers_tbl

\* PicklistConverter.create_quotation.  raised: an exception left the method.
create_quotation(cfg, items, quotations, details, picklist_id, products, customer_id, fault) ==
    LET base == [raised |-> FALSE, success |-> FALSE, quotation_id |-> 0,
                 quotation_number |-> <<>>, error_msg |-> NoError,
                 items |-> items, quotations |-> quotations, details |-> details,
                 sync_called |-> FALSE, sync_barcodes |-> <<>>]
        \* the returns of Steps 4 and 5 (converter.py:509-646), the connection
        \* closed
        Returned(after, tx, closed) ==
            IF fault # "customer" /\ ~CustomerExists(customer_id)
            THEN [after EXCEPT !.error_msg = Error("Customer ID not found")]
            ELSE IF fault \in BuilderFaults
            THEN [after EXCEPT !.error_msg = Error("Database error"),
                               !.quotations = closed.quotations,
                               !.details = closed.details]
            ELSE [after EXCEPT !.success = TRUE, !.quotation_id = tx.quotation_id,
                               !.quotation_number = tx.quotation_number,
                               !.quotations = closed.quotations,
                               !.details = closed.details]
        \* the transaction of converter.py:515-643 and `finally: conn.close()`
        Transaction(after, tx) ==
            Returned(after, tx,
                     CloseConnection([quotations |-> quotations, details |-> details],
                                     [quotations |-> tx.quotations, details |-> tx.details],
                                     fault \notin BuilderFaults))
        \* the gate of converter.py:503-506
        Gate(after, unmatched_barcodes, matched_products) ==
            IF GateFails(unmatched_barcodes, matched_products)
            THEN [after EXCEPT !.error_msg = [kind |-> "Unable to match products",
                                              items |-> unmatched_barcodes]]
            ELSE Transaction(after,
                     BuilderStatements(quotations, details, picklist_id,
                                       matched_products, customer_id, fault))
        \* auto-sync and re-match (converter.py:456-501)
        Healed(barcode_to_item, missing_barcodes, sync_result) ==
            LET healed == missing_barcodes # <<>>
                items2 == IF healed THEN sync_result.items ELSE items
                rematch == healed /\ sync_result.synced_count > 0
                synced_items == RowsByBarcode(SelectItems(items2, sync_result.synced_barcodes))
                barcode_to_item2 == MergeSynced(barcode_to_item, synced_items)
                after == [base EXCEPT !.items = items2, !.sync_called = healed,
                                      !.sync_barcodes = missing_barcodes]
            IN  IF rematch /\ fault = "rematch" THEN [after EXCEPT !.raised = TRUE]
                ELSE IF rematch
                THEN Gate(after, RematchUnmatched(products, barcode_to_item2),
                          MatchedProducts(products, barcode_to_item2))
                ELSE Gate(after, FirstPassUnmatched(products, barcode_to_item),
                          MatchedProducts(products, barcode_to_item))
        Missing(barcode_to_item, missing_barcodes) ==
            Healed(barcode_to_item, missing_barcodes,
                   auto_sync_from_inventory(cfg, items, missing_barcodes, fault))
        Queried(barcode_to_item) ==
            Missing(barcode_to_item, MissingBarcodes(products, barcode_to_item))
    IN  IF fault = "match" THEN [base EXCEPT !.raised = TRUE]
        ELSE Queried(BatchQuery(items, products))

(***************************************************************************)
(* Reconciliation Pipeline (convert_picklist, convert_all_pending).        *)
(* db is the record of the tables a conversion may write:                  *)
(*   [tracking, items, quotations, details].                               *)
(***************************************************************************)
\* the faults one call may meet: a backend that raises at one place
Faults == {"none", "config_read", "shipper", "match", "rematch", "inventory_down", "heal_schema",
           "heal_insert", "ledger_busy", "ledger_locked", "ledger_error"}
          \cup BuilderFaults

\* variant: an exception of the ledger call turns the result into a failure
ConversionOutcome_FailOnLogError(success, error_msg, log_raised) ==
    IF log_raised THEN [success |-> FALSE, error_msg |-> Error("Conversion error")]
    ELSE [success |-> success, error_msg |-> error_msg]

\* what convert_picklist returns after the ledger call of converter.py:700-712
ConversionOutcome(success, error_msg, log_raised) ==
    [success |-> success, error_msg |-> error_msg]

\* convert_picklist up to its ledger call (converter.py:648-698, 714-716): the
\* result so far (out), the stores, and the outcome it is about to record;
\* log is FALSE when it returns without a ledger call
BeforeLog(cfg, defaults, db, picklist_id, fault) ==
    LET out == [db |-> db, raised |-> FALSE, success |-> FALSE, error_msg |-> NoError,
                create_called |-> FALSE, sync_called |-> FALSE,
                sync_barcodes |-> <<>>, log_called |-> FALSE, log_raised |-> FALSE,
                quotation_id |-> 0, quotation_number |-> <<>>]
        products == get_picklist_products(picklist_id)
        Returns(error_msg) ==
            [log |-> FALSE, out |-> [out EXCEPT !.error_msg = error_msg], db |-> db,
             success |-> FALSE, quotation_id |-> 0, quotation_number |-> <<>>,
             error_msg |-> error_msg]
        Records(o, d, success, quotation_id, quotation_number, error_msg) ==
            [log |-> TRUE, out |-> o, db |-> d, success |-> success,
             quotation_id |-> quotation_id, quotation_number |-> quotation_number,
             error_msg |-> error_msg]
        \* converter.py:689-720, create_quotation having ended as cq
        Attempted(cq) ==
            LET db_cq == [db EXCEPT !.items = cq.items, !.quotations = cq.quotations,
                                    !.details = cq.details]
                called == [out EXCEPT !.create_called = TRUE,
                                      !.sync_called = cq.sync_called,
                                      !.sync_barcodes = cq.sync_barcodes]
            IN  IF cq.raised
                THEN Records(called, db_cq, FALSE, 0, <<>>, Error("Conversion error"))
                ELSE Records(called, db_cq, cq.success, cq.quotation_id,
                             cq.quotation_number, cq.error_msg)
    IN  IF fault = "config_read"
        THEN [Returns(NoError) EXCEPT !.out.raised = TRUE]
        ELSE IF ~cfg.present THEN Returns(Error("Database configuration not found"))
        ELSE IF ~defaults.present THEN Returns(Error("Quotation defaults not configured"))
        ELSE IF fault = "shipper"
        THEN Records(out, db, FALSE, 0, <<>>, Error("Conversion error"))
        ELSE IF products = <<>>
        THEN Records(out, db, FALSE, 0, <<>>, Error("has no products with quantity > 0"))
        ELSE Attempted(create_quotation(cfg, db.items, db.quotations, db.details,
                                        picklist_id, products, defaults.customer_id, fault))

\* the ledger call of convert_picklist on the table `tracking` and the return
\* that follows it (converter.py:681-687, 699-712, 716-720)
AfterLog(pre, tracking, picklist_id, fault) ==
    LET Return(log, outcome) ==
            [pre.out EXCEPT !.db = [pre.db EXCEPT !.tracking = log.table],
                            !.success = outcome.success,
                            !.error_msg = outcome.error_msg,
                            !.log_called = TRUE, !.log_raised = log.raised,
                            !.quotation_id = pre.quotation_id,
                            !.quotation_number = pre.quotation_number]
        Logged(log) ==
            Return(log, ConversionOutcome(pre.success, pre.error_msg, log.raised))
    IN  IF ~pre.log THEN pre.out
        ELSE Logged(log_conversion(tracking, picklist_id, pre.success, pre.quotation_id,
                                   pre.quotation_number, pre.error_msg, fault))

\* PicklistConverter.convert_picklist
convert_picklist(cfg, defaults, db, picklist_id, fault) ==
    AfterLog(BeforeLog(cfg, defaults, db, picklist_id, fault), db.tracking,
             picklist_id, fault)

\* the loop of convert_all_pending (converter.py:749-760); the fault meets
\* the picklist `victim` only
RECURSIVE ConvertLoop(_, _, _, _, _, _)
ConvertLoop(pending, cfg, defaults, acc, victim, fault) ==
    IF pending = <<>> THEN acc
    ELSE LET picklist_id == Head(pending).id
             called == [acc EXCEPT !.attempted = Append(@, picklist_id)]
             \* the counters after convert_picklist returned r, or the
             \* `except Exception` of convert_all_pending when it raised
             Counted(r) ==
                 IF r.raised
                 THEN [called EXCEPT !.error = Error("Error processing picklists"),
                                     !.summary = FALSE, !.total_pending = 0,
                                     !.converted = 0, !.failed = 0, !.errors = <<>>]
                 ELSE IF r.success
                 THEN ConvertLoop(Tail(pending), cfg, defaults,
                          [called EXCEPT !.db = r.db, !.converted = @ + 1],
                          victim, fault)
                 ELSE ConvertLoop(Tail(pending), cfg, defaults,
                          [called EXCEPT !.db = r.db, !.failed = @ + 1,
                                         !.errors = Append(@, [picklist_id |-> picklist_id,
                                                               error |-> r.error_msg])],
                          victim, fault)
         IN  Counted(convert_picklist(cfg, defaults, acc.db, picklist_id,
                         IF picklist_id = victim THEN fault ELSE "none"))

\* PicklistConverter.convert_all_pending; victim 0 is the call itself: its
\* read of the configuration or its query of get_pending_picklists.
\* summary is FALSE when the result carries only 'error'; pending is the
\* pending set it computed and attempted the picklists it called
\* convert_picklist for.
convert_all_pending(cfg, defaults, all_picklists, db, archived, victim, fault) ==
    LET pending_picklists == get_pending_picklists(all_picklists, db.tracking, archived)
        results == [db |-> db, raised |-> FALSE, error |-> NoError, summary |-> TRUE,
                    pending |-> pending_picklists, attempted |-> <<>>,
                    total_pending |-> Len(pending_picklists), converted |-> 0,
                    failed |-> 0, errors |-> <<>>]
        failed_whole(kind) == [results EXCEPT !.error = Error(kind), !.pending = <<>>,
                                              !.summary = FALSE, !.total_pending = 0]
    IN  IF victim = 0 /\ fault = "config_read"
        THEN [failed_whole("None") EXCEPT !.raised = TRUE]
        ELSE IF ~cfg.present THEN failed_whole("Database configuration not found")
        ELSE IF victim = 0 /\ fault = "shipper"
        THEN failed_whole("Error processing picklists")
        ELSE ConvertLoop(pending_picklists, cfg, defaults, results, victim, fault)

(***************************************************************************)
(* State machine: the request handlers of app/main.py, one call at a time. *)
(***************************************************************************)
NoConfig == [present |-> FALSE, inventory_enabled |-> FALSE]

NoDefaults == [present |-> FALSE, customer_id |-> 0]

DB == [tracking |-> conversion_tracking, items |-> Items_tbl,
       quotations |-> Quotations_tbl, details |-> QuotationsDetails_tbl]

\* the tables after a call that left them as db
Store(db) ==
    /\ conversion_tracking' = db.tracking
    /\ Items_tbl' = db.items
    /\ Quotations_tbl' = db.quotations
    /\ QuotationsDetails_tbl' = db.details

\* quotations the converter has created
Created(quotations) == Len(quotations) - Len(LegacyQuotations)

PicklistIds == Range(pick_lists)

\* the threads that call convert_picklist: a request thread of the Flask
\* server and the thread of the polling service
Threads == {"request", "poller"}

\* a thread that is not between the builder and the ledger call
Idle == [log |-> FALSE]

\* the positions of a thread that runs PollingService._poll_loop:
\*   "unborn"  not created yet
\*   "test"    at `while self.running`
\*   "cycle"   in the try block, up to the return of convert_all_pending
\*   "sleep"   in the interval loop of one-second sleeps
\*   "backoff" in the except block, time.sleep(5)
\*   "exited"  the loop has ended
LoopIds == 1..MaxLoops

\* PollingService.__init__: thread 0 is None; joining is the thread a stop
\* call waits for while it holds self.lock (0: the lock is free)
NewPollingService ==
    [running |-> FALSE, thread |-> 0, loops |-> [i \in LoopIds |-> "unborn"],
     joining |-> 0]

Init ==
    /\ pick_lists \in ShipperContents
    /\ config = NoConfig
    /\ quotation_defaults = NoDefaults
    /\ conversion_tracking = {}
    /\ archived_picklists = {}
    /\ Items_tbl = InitialItems
    /\ Quotations_tbl = LegacyQuotations
    /\ QuotationsDetails_tbl = <<>>
    /\ inflight = [t \in Threads |-> Idle]
    /\ poller = NewPollingService

\* POST /api/config/sqlserver -> SQLiteManager.save_config
SaveConfig(inventory_enabled) ==
    /\ config' = [present |-> TRUE, inventory_enabled |-> inventory_enabled]
    /\ UNCHANGED <<quotation_defaults, conversion_tracking, archived_picklists,
                   Items_tbl, Quotations_tbl, QuotationsDetails_tbl, pick_lists, inflight, poller>>

\* POST /api/config/quotation-defaults -> SQLiteManager.save_quotation_defaults
SaveQuotationDefaults(customer_id) ==
    /\ quotation_defaults' = [present |-> TRUE, customer_id |-> customer_id]
    /\ UNCHANGED <<config, conversion_tracking, archived_picklists,
                   Items_tbl, Quotations_tbl, QuotationsDetails_tbl, pick_lists, inflight, poller>>

\* POST /api/convert/selected with one id -> convert_picklist (convertOne)
ConvertOne(picklist_id, fault) ==
    /\ LET r == convert_picklist(config, quotation_defaults, DB, picklist_id, fault)
       IN  /\ Created(r.db.quotations) <= MaxQuotations
           /\ Store(r.db)
    /\ UNCHANGED <<config, quotation_defaults, archived_picklists, pick_lists, inflight, poller>>

\* the faults a batch may meet, and the (victim, fault) pairs
BatchFaultKinds == {"config_read", "shipper", "match", "commit", "ledger_error"}

BatchFaults == {<<0, "none">>, <<0, "shipper">>} \cup (PicklistIds \X BatchFaultKinds)

\* POST /api/convert/trigger, or one cycle of PollingService._poll_loop
\* -> convert_all_pending (convertAllPending)
ConvertAllPending(victim, fault) ==
    /\ LET r == convert_all_pending(config, quotation_defaults, pick_lists, DB,
                                    archived_picklists, victim, fault)
       IN  /\ Created(r.db.quotations) <= MaxQuotations
           /\ Store(r.db)
    /\ UNCHANGED <<config, quotation_defaults, archived_picklists, pick_lists, inflight, poller>>

\* POST /api/archive/selected with one id -> SQLiteManager.archive_picklist
ArchivePicklist(pick_list_id) ==
    /\ archived_picklists' = archived_picklists \cup {pick_list_id}
    /\ UNCHANGED <<config, quotation_defaults, conversion_tracking, Items_tbl,
                   Quotations_tbl, QuotationsDetails_tbl, pick_lists, inflight, poller>>

\* POST /api/archive/unarchive with one id -> SQLiteManager.unarchive_picklist
UnarchivePicklist(pick_list_id) ==
    /\ archived_picklists' = archived_picklists \ {pick_list_id}
    /\ UNCHANGED <<config, quotation_defaults, conversion_tracking, Items_tbl,
                   Quotations_tbl, QuotationsDetails_tbl, pick_lists, inflight, poller>>

\* POST /api/history/delete -> SQLiteManager.delete_conversion_records
DeleteConversionRecords(records) ==
    /\ conversion_tracking' = conversion_tracking \ records
    /\ UNCHANGED <<config, quotation_defaults, archived_picklists, Items_tbl,
                   Quotations_tbl, QuotationsDetails_tbl, pick_lists, inflight, poller>>

\* POST /api/history/delete-failed -> SQLiteManager.delete_all_failed_conversions
DeleteAllFailedConversions ==
    /\ conversion_tracking' = {r \in conversion_tracking : r.success}
    /\ UNCHANGED <<config, quotation_defaults, archived_picklists, Items_tbl,
                   Quotations_tbl, QuotationsDetails_tbl, pick_lists, inflight, poller>>

Next ==
    \/ \E e \in BOOLEAN : SaveConfig(e)
    \/ \E c \in CustomerIds : SaveQuotationDefaults(c)
    \/ \E p \in PicklistIds, f \in Faults : ConvertOne(p, f)
    \/ \E vf \in BatchFaults : ConvertAllPending(vf[1], vf[2])
    \/ \E p \in PicklistIds : ArchivePicklist(p)
    \/ \E p \in PicklistIds : UnarchivePicklist(p)
    \/ \E rs \in (SUBSET conversion_tracking) \ {{}} : DeleteConversionRecords(rs)
    \/ DeleteAllFailedConversions

Spec == Init /\ [][Next]_vars

(***************************************************************************)
(* Conversions of two threads interleaved: a call of convert_picklist is   *)
(* two steps, the builder's transaction and then the ledger call.          *)
(***************************************************************************)
\* the faults a call meets in the interleaved runs
ConcurrentFaults == {"none", "commit", "ledger_error"}

\* thread t runs convert_picklist up to its ledger call
BeginConvert(t, picklist_id, fault) ==
    /\ inflight[t] = Idle
    /\ LET pre == BeforeLog(config, quotation_defaults, DB, picklist_id, fault)
       IN  /\ pre.log
           /\ Created(pre.db.quotations) <= MaxQuotations
           /\ Items_tbl' = pre.db.items
           /\ Quotations_tbl' = pre.db.quotations
           /\ QuotationsDetails_tbl' = pre.db.details
           /\ inflight' = [inflight EXCEPT ![t] =
                   [log |-> TRUE, picklist_id |-> picklist_id, fault |-> fault,
                    success |-> pre.success, quotation_id |-> pre.quotation_id,
                    quotation_number |-> pre.quotation_number,
                    error_msg |-> pre.error_msg]]
    /\ UNCHANGED <<config, quotation_defaults, conversion_tracking,
                   archived_picklists, pick_lists, poller>>

\* thread t makes the ledger call of its convert_picklist and returns
FinishConvert(t) ==
    /\ inflight[t] # Idle
    /\ LET w == inflight[t]
           log == log_conversion(conversion_tracking, w.picklist_id, w.success,
                                 w.quotation_id, w.quotation_number, w.error_msg,
                                 w.fault)
       IN  conversion_tracking' = log.table
    /\ inflight' = [inflight EXCEPT ![t] = Idle]
    /\ UNCHANGED <<config, quotation_defaults, archived_picklists, Items_tbl,
                   Quotations_tbl, QuotationsDetails_tbl, pick_lists, poller>>

\* the shipper holds picklist 1 and one other picklist
InitConcurrent == Init /\ 1 \in PicklistIds

NextConcurrent ==
    \/ \E e \in BOOLEAN : SaveConfig(e)
    \/ \E c \in CustomerIds : SaveQuotationDefaults(c)
    \/ \E t \in Threads, p \in PicklistIds, f \in ConcurrentFaults : BeginConvert(t, p, f)
    \/ \E t \in Threads : FinishConvert(t)
    \/ DeleteAllFailedConversions

SpecConcurrent == InitConcurrent /\ [][NextConcurrent]_vars

(***************************************************************************)
(* Polling service (app/poller.py).  ps is the PollingService object.      *)
(***************************************************************************)
\* the loop threads that have been started and have not ended
Active(ps) == {i \in LoopIds : ps.loops[i] \notin {"unborn", "exited"}}

\* the loop threads that are inside a cycle of the pipeline
Working(ps) == {i \in LoopIds : ps.loops[i] = "cycle"}

\* the thread object the next threading.Thread(...) creates
NewThread(ps) ==
    CHOOSE i \in LoopIds :
        /\ ps.loops[i] = "unborn"
        /\ \A j \in LoopIds : ps.loops[j] = "unborn" => i <= j

\* PollingService.start (the body of `with self.lock`)
start(ps) ==
    IF ps.running
    THEN [success |-> FALSE, message |-> "Polling service is already running",
          poller |-> ps]
    ELSE [success |-> TRUE, message |-> "Polling service started",
          poller |-> [ps EXCEPT !.running = TRUE, !.thread = NewThread(ps),
                                !.loops[NewThread(ps)] = "test"]]

\* variant: stop without the test of self.running
stop_NoGuard(ps) ==
    [success |-> TRUE, message |-> "Polling service stopped",
     poller |-> [ps EXCEPT !.running = FALSE, !.joining = ps.thread]]

\* PollingService.stop up to self.thread.join(timeout=5): what it is going to
\* return, and the object while it waits in join holding self.lock
stop(ps) ==
    IF ~ps.running
    THEN [success |-> FALSE, message |-> "Polling service is not running",
          poller |-> ps]
    ELSE [success |-> TRUE, message |-> "Polling service stopped",
          poller |-> [ps EXCEPT !.running = FALSE, !.joining = ps.thread]]

\* variant: join without a timeout
JoinTimesOut_Never(pc) == FALSE

\* join(timeout=5) may return with the thread alive when the thread is at a
\* place it can stay at for more than the timeout: inside a cycle (database
\* calls; the SQLite busy timeout alone is 30 s), at its top ("cycle") or
\* inside the loop of convert_all_pending ("batch").  In the interval loop the
\* thread sees the flag within a second.
JoinTimesOut(pc) == pc \in {"cycle", "batch"}

\* variant: no except block in _poll_loop, the exception ends the thread
OnCycleException_Propagate == "exited"

\* the except block of _poll_loop (poller.py:33-35)
OnCycleException == "backoff"

\* what a cycle meets: nothing, the shipper database unreachable (caught
\* inside convert_all_pending), or an exception of a SQLite read
\* (get_quotation_defaults, get_config) that reaches _poll_loop
CycleOutcomes == {"none", "shipper", "raise"}

\* POST /api/poller/start
Start ==
    /\ poller.joining = 0
    /\ poller.running \/ \E i \in LoopIds : poller.loops[i] = "unborn"
    /\ poller' = start(poller).poller
    /\ UNCHANGED <<config, quotation_defaults, conversion_tracking, archived_picklists,
                   Items_tbl, Quotations_tbl, QuotationsDetails_tbl, pick_lists, inflight>>

\* POST /api/poller/stop, up to the join
Stop ==
    /\ poller.joining = 0
    /\ poller' = stop(poller).poller
    /\ UNCHANGED <<config, quotation_defaults, conversion_tracking, archived_picklists,
                   Items_tbl, Quotations_tbl, QuotationsDetails_tbl, pick_lists, inflight>>

\* the join of stop ends, stop releases the lock and returns success
StopReturn ==
    /\ poller.joining # 0
    /\ \/ poller.loops[poller.joining] = "exited"
       \/ JoinTimesOut(poller.loops[poller.joining])
    /\ poller' = [poller EXCEPT !.joining = 0]
    /\ UNCHANGED <<config, quotation_defaults, conversion_tracking, archived_picklists,
                   Items_tbl, Quotations_tbl, QuotationsDetails_tbl, pick_lists, inflight>>

\* `while self.running:` of loop thread i
LoopTest(i) ==
    /\ poller.loops[i] = "test"
    /\ poller' = [poller EXCEPT !.loops[i] = IF poller.running THEN "cycle" ELSE "exited"]
    /\ UNCHANGED <<config, quotation_defaults, conversion_tracking, archived_picklists,
                   Items_tbl, Quotations_tbl, QuotationsDetails_tbl, pick_lists, inflight>>

\* the try block of loop thread i up to the interval loop
Cycle(i, outcome) ==
    /\ poller.loops[i] = "cycle"
    /\ IF outcome = "raise"
       THEN /\ poller' = [poller EXCEPT !.loops[i] = OnCycleException]
            /\ UNCHANGED <<conversion_tracking, Items_tbl, Quotations_tbl,
                           QuotationsDetails_tbl>>
       ELSE /\ poller' = [poller EXCEPT !.loops[i] = "sleep"]
            /\ Store(convert_all_pending(config, quotation_defaults, pick_lists, DB,
                                         archived_picklists, 0, outcome).db)
    /\ UNCHANGED <<config, quotation_defaults, archived_picklists, pick_lists, inflight>>

\* the interval loop of thread i ends (interval over, or the flag is down)
Sleep(i) ==
    /\ poller.loops[i] = "sleep"
    /\ poller' = [poller EXCEPT !.loops[i] = "test"]
    /\ UNCHANGED <<config, quotation_defaults, conversion_tracking, archived_picklists,
                   Items_tbl, Quotations_tbl, QuotationsDetails_tbl, pick_lists, inflight>>

\* time.sleep(5) of the except block of thread i ends
Backoff(i) ==
    /\ poller.loops[i] = "backoff"
    /\ poller' = [poller EXCEPT !.loops[i] = "test"]
    /\ UNCHANGED <<config, quotation_defaults, conversion_tracking, archived_picklists,
                   Items_tbl, Quotations_tbl, QuotationsDetails_tbl, pick_lists, inflight>>

\* a step of a loop thread
LoopStep ==
    \/ \E i \in LoopIds : LoopTest(i)
    \/ \E i \in LoopIds, o \in CycleOutcomes : Cycle(i, o)
    \/ \E i \in LoopIds : Sleep(i)
    \/ \E i \in LoopIds : Backoff(i)

\* the shipper holds picklists 2 and 4, which no cycle can convert
InitPoller == Init /\ pick_lists = <<2, 4>>

NextPoller ==
    \/ \E e \in BOOLEAN : SaveConfig(e)
    \/ \E c \in CustomerIds : SaveQuotationDefaults(c)
    \/ Start
    \/ Stop
    \/ StopReturn
    \/ LoopStep

SpecPoller == InitPoller /\ [][NextPoller]_vars

\* the operating system runs every loop thread that can take a step
SpecPollerFair == SpecPoller /\ \A i \in LoopIds :
    /\ WF_vars(LoopTest(i))
    /\ WF_vars(\E o \in CycleOutcomes : Cycle(i, o))
    /\ WF_vars(Sleep(i))
    /\ WF_vars(Backoff(i))

\* a cycle may never finish (a database call that blocks): the loop threads
\* are scheduled at their other steps, and so is the thread inside stop
SpecPollerHungCycle == SpecPoller /\ WF_vars(StopReturn) /\ \A i \in LoopIds :
    /\ WF_vars(LoopTest(i))
    /\ WF_vars(Sleep(i))
    /\ WF_vars(Backoff(i))

(***************************************************************************)
(* Healing Sync called on its own: POST /api/copy-products-from-inventory  *)
(* with a list of barcodes chosen by the caller.                           *)
(***************************************************************************)
\* the barcodes a caller may send: three the inventory holds (one of them
\* also in the catalog from the start) and one it does not
HealBarcodes == {"123", "777", "888", "999"}

\* the non-empty lists of at most MaxBarcodes barcodes, repeats included
BarcodeLists == UNION {[1..n -> HealBarcodes] : n \in 1..MaxBarcodes}

\* what a Healing Sync call may meet
HealFaults == {"none", "inventory_down", "heal_schema", "heal_insert"}

\* main.copy_products_from_inventory: the handler passes the list on as sent
CopyProductsFromInventory(barcodes, fault) ==
    /\ barcodes # <<>>
    /\ LET r == copy_products_from_inventory(config, Items_tbl, barcodes, fault)
       IN  /\ Len(r.items) <= MaxItems
           /\ Items_tbl' = r.items
    /\ UNCHANGED <<config, quotation_defaults, conversion_tracking, archived_picklists,
                   Quotations_tbl, QuotationsDetails_tbl, pick_lists, inflight, poller>>

InitHealing == Init /\ pick_lists = <<2, 4>>

NextHealing ==
    \/ \E e \in BOOLEAN : SaveConfig(e)
    \/ \E c \in CustomerIds : SaveQuotationDefaults(c)
    \/ \E bl \in BarcodeLists, f \in HealFaults : CopyProductsFromInventory(bl, f)

SpecHealing == InitHealing /\ [][NextHealing]_vars

(***************************************************************************)
(* The writes of the SQLite file, taken step by step: a thread enters a    *)
(* method of SQLiteManager that writes, and later commits and leaves it.   *)
(* Flask serves requests on threads of their own, beside the poller.       *)
(***************************************************************************)
\* the methods of SQLiteManager that write and are modelled
LedgerWrites ==
    {"log_conversion", "delete_all_failed_conversions", "archive_picklist",
     "unarchive_picklist", "save_config", "save_quotation_defaults"}

\* the methods whose body is inside `with _sqlite_write_lock:`
UsesWriteLock(write) ==
    write \in {"log_conversion", "delete_conversion_records", "delete_all_failed_conversions"}

\* the poller thread writes through convert_picklist only; a request thread
\* may call every method
WritesOf(t) == IF t = "poller" THEN {"log_conversion"} ELSE LedgerWrites

\* the argument of a write: a picklist id, the inventory switch of the
\* configuration, the customer of the defaults, or none (0)
WriteArgs(write) ==
    CASE write \in {"log_conversion", "archive_picklist", "unarchive_picklist"} -> PicklistIds
      [] write = "save_config" -> BOOLEAN
      [] write = "save_quotation_defaults" -> CustomerIds
      [] OTHER -> {0}

\* the threads inside a method that writes
Writing == {t \in Threads : "write" \in DOMAIN inflight[t]}

\* the threads that hold _sqlite_write_lock
LockHolders ==
    {t \in Threads : "holds_lock" \in DOMAIN inflight[t] /\ inflight[t].holds_lock}

\* thread t enters a method that writes: it waits for the lock when the
\* method takes it, and opens its connection
BeginWrite(t, write, arg) ==
    /\ inflight[t] = Idle
    /\ write \in WritesOf(t)
    /\ arg \in WriteArgs(write)
    /\ UsesWriteLock(write) => LockHolders = {}
    /\ inflight' = [inflight EXCEPT ![t] =
            [log |-> FALSE, write |-> write, arg |-> arg,
             holds_lock |-> UsesWriteLock(write)]]
    /\ UNCHANGED <<config, quotation_defaults, conversion_tracking, archived_picklists,
                   Items_tbl, Quotations_tbl, QuotationsDetails_tbl, pick_lists, poller>>

\* thread t executes its statement, commits, closes the connection and
\* leaves the method (releasing the lock it may hold)
CommitWrite(t) ==
    /\ t \in Writing
    /\ LET w == inflight[t]
       IN  /\ conversion_tracking' =
                 CASE w.write = "log_conversion" ->
                          log_conversion(conversion_tracking, w.arg, FALSE, 0, <<>>,
                                         Error("Database error"), "none").table
                   [] w.write = "delete_all_failed_conversions" ->
                          {r \in conversion_tracking : r.success}
                   [] OTHER -> conversion_tracking
           /\ archived_picklists' =
                 CASE w.write = "archive_picklist" -> archived_picklists \cup {w.arg}
                   [] w.write = "unarchive_picklist" -> archived_picklists \ {w.arg}
                   [] OTHER -> archived_picklists
           /\ config' =
                 IF w.write = "save_config"
                 THEN [present |-> TRUE, inventory_enabled |-> w.arg] ELSE config
           /\ quotation_defaults' =
                 IF w.write = "save_quotation_defaults"
                 THEN [present |-> TRUE, customer_id |-> w.arg] ELSE quotation_defaults
    /\ inflight' = [inflight EXCEPT ![t] = Idle]
    /\ UNCHANGED <<Items_tbl, Quotations_tbl, QuotationsDetails_tbl, pick_lists, poller>>

InitLedger == Init /\ pick_lists = <<1, 2>>

NextLedger ==
    \/ \E t \in Threads, write \in LedgerWrites :
          \E arg \in WriteArgs(write) : BeginWrite(t, write, arg)
    \/ \E t \in Threads : CommitWrite(t)

SpecLedger == InitLedger /\ [][NextLedger]_vars

(***************************************************************************)
(* Two conversions whose Quotation Builders overlap: a builder reads the   *)
(* next quotation number (converter.py:519) and, in a later step, inserts  *)
(* the header and the lines, commits and records the conversion.  No step  *)
(* fails.                                                                  *)
(***************************************************************************)
\* the threads between the read of the number and the commit
Building == {t \in Threads : "build" \in DOMAIN inflight[t]}

\* thread t runs convert_picklist up to the read of the next quotation
\* number: lines, matching and healing (Steps 1-4), the customer, the number
BeginBuild(t, picklist_id) ==
    /\ inflight[t] = Idle
    /\ config.present /\ quotation_defaults.present
    /\ Created(Quotations_tbl) + Cardinality(Building) < MaxQuotations
    /\ LET products == get_picklist_products(picklist_id)
           r == create_quotation(config, Items_tbl, Quotations_tbl, QuotationsDetails_tbl,
                                 picklist_id, products, quotation_defaults.customer_id, "none")
       IN  /\ r.success
           /\ Items_tbl' = r.items
           /\ inflight' = [inflight EXCEPT ![t] =
                   [log |-> FALSE, build |-> TRUE, picklist_id |-> picklist_id,
                    customer_id |-> quotation_defaults.customer_id,
                    matched_products |-> MatchedProducts(products, BatchQuery(r.items, products)),
                    read_number |-> Str(get_next_quotation_number(Quotations_tbl))]]
    /\ UNCHANGED <<config, quotation_defaults, conversion_tracking, archived_picklists,
                   Quotations_tbl, QuotationsDetails_tbl, pick_lists, poller>>

\* thread t inserts the header with the number it read and the lines, writes
\* the total, commits, and records the conversion in the ledger
CommitBuild(t) ==
    /\ t \in Building
    /\ LET w == inflight[t]
           tx == NumberedStatements(Quotations_tbl, QuotationsDetails_tbl, w.picklist_id,
                                    w.matched_products, w.customer_id, "none", w.read_number)
       IN  /\ Quotations_tbl' = tx.quotations
           /\ QuotationsDetails_tbl' = tx.details
           /\ conversion_tracking' =
                 log_conversion(conversion_tracking, w.picklist_id, TRUE, tx.quotation_id,
                                tx.quotation_number, NoError, "none").table
    /\ inflight' = [inflight EXCEPT ![t] = Idle]
    /\ UNCHANGED <<config, quotation_defaults, archived_picklists, Items_tbl,
                   pick_lists, poller>>

\* the shipper holds picklists 1 and 3, which both can be converted
InitBuilders == Init /\ pick_lists = <<1, 3>>

NextBuilders ==
    \/ \E e \in BOOLEAN : SaveConfig(e)
    \/ \E c \in CustomerIds : SaveQuotationDefaults(c)
    \/ \E t \in Threads, p \in PicklistIds : BeginBuild(t, p)
    \/ \E t \in Threads : CommitBuild(t)

SpecBuilders == InitBuilders /\ [][NextBuilders]_vars

(***************************************************************************)
(* Conversions one after the other on a BackOffice database that already   *)
(* holds quotations made by hand, with numbers of several shapes.          *)
(***************************************************************************)
\* the QuotationNumber values of the quotations found: not numeric, numeric,
\* numeric with leading zeros, numeric with a sign
LegacyNumbers == {<<"Q", "7">>, <<"1", "9">>, <<"4">>, <<"0", "0", "7">>, <<"-", "5">>}

\* the contents of dbo.Quotations_tbl a run may find: up to MaxLegacy rows
LegacyTables ==
    UNION {{[i \in 1..n |-> [QuotationID |-> i, QuotationNumber |-> f[i],
                             QuotationTitle |-> 0, CustomerID |-> 1,
                             QuotationTotal |-> 0]] : f \in [1..n -> LegacyNumbers]} :
           n \in 0..MaxLegacy}

InitNumbering ==
    /\ pick_lists = <<1, 3>>
    /\ config = NoConfig
    /\ quotation_defaults = NoDefaults
    /\ conversion_tracking = {}
    /\ archived_picklists = {}
    /\ Items_tbl = InitialItems
    /\ Quotations_tbl \in LegacyTables
    /\ QuotationsDetails_tbl = <<>>
    /\ inflight = [t \in Threads |-> Idle]
    /\ poller = NewPollingService

NextNumbering ==
    \/ \E e \in BOOLEAN : SaveConfig(e)
    \/ \E c \in CustomerIds : SaveQuotationDefaults(c)
    \/ \E p \in PicklistIds, f \in {"none", "commit"} : ConvertOne(p, f)

SpecNumbering == InitNumbering /\ [][NextNumbering]_vars

(***************************************************************************)
(* A cycle taken picklist by picklist: convert_all_pending computes the    *)
(* pending set and then calls convert_picklist for one picklist at a time, *)
(* while requests may save the configuration or the defaults.  No step     *)
(* fails.                                                                  *)
(***************************************************************************)
\* the threads inside the loop of convert_all_pending
Cycling == {t \in Threads : "batch" \in DOMAIN inflight[t]}

\* thread t enters convert_all_pending: get_config and the pending set
\* (converter.py:727-740).  config_at_start is its local `config`;
\* defaults_at_start records what the defaults store held at that moment,
\* which the method does not read.
BeginCycle(t) ==
    /\ inflight[t] = Idle
    /\ config.present
    /\ LET pending == get_pending_picklists(pick_lists, conversion_tracking,
                                            archived_picklists)
       IN  /\ pending # <<>>
           /\ inflight' = [inflight EXCEPT ![t] =
                   [log |-> FALSE, batch |-> TRUE,
                    pending |-> [i \in DOMAIN pending |-> pending[i].id],
                    config_at_start |-> config,
                    defaults_at_start |-> quotation_defaults]]
    /\ UNCHANGED <<config, quotation_defaults, conversion_tracking, archived_picklists,
                   Items_tbl, Quotations_tbl, QuotationsDetails_tbl, pick_lists, poller>>

\* one turn of the loop of converter.py:749-760: convert_picklist of the
\* next picklist, which reads the configuration and the defaults itself
\* (converter.py:653-659); after the last picklist the method returns
CycleStep(t) ==
    /\ t \in Cycling
    /\ LET w == inflight[t]
           r == convert_picklist(config, quotation_defaults, DB, Head(w.pending), "none")
       IN  /\ Created(r.db.quotations) <= MaxQuotations
           /\ Store(r.db)
           /\ inflight' = [inflight EXCEPT ![t] =
                   IF Tail(w.pending) = <<>> THEN Idle
                   ELSE [w EXCEPT !.pending = Tail(w.pending)]]
    /\ UNCHANGED <<config, quotation_defaults, archived_picklists, pick_lists, poller>>

InitCycle == Init /\ pick_lists = <<1, 3>>

NextCycle ==
    \/ \E e \in BOOLEAN : SaveConfig(e)
    \/ \E c \in CustomerIds : SaveQuotationDefaults(c)
    \/ \E t \in Threads : BeginCycle(t)
    \/ \E t \in Threads : CycleStep(t)

SpecCycle == InitCycle /\ [][NextCycle]_vars

(***************************************************************************)
(* log_conversion under its decorator (database.py:16-34, 260-279), taken  *)
(* attempt by attempt.  A call is at one of the positions                  *)
(*   "lock"      in the wrapper's loop, before `with _sqlite_write_lock:`   *)
(*   "attempt"   inside the with block, the INSERT not yet answered        *)
(*   "sleep"     in time.sleep(delay) of the wrapper                       *)
(*   "returned"  the wrapper has returned or raised                        *)
(* answers and slept record what the store answered to the attempts made   *)
(* and the delays slept, in units of initial_delay.                        *)
(***************************************************************************)
\* what the store answers to the INSERT and commit of one attempt: done,
\* sqlite3.OperationalError 'database is locked', or another exception
StoreAnswers == {"ok", "locked", "error"}

\* variant: the wrapper retries after every exception
ShouldRetry_AnyError(answer, attempt) == answer # "ok" /\ attempt < max_retries - 1

\* `"database is locked" in str(e) and attempt < max_retries - 1`, in the
\* handler of sqlite3.OperationalError
ShouldRetry(answer, attempt) == answer = "locked" /\ attempt < max_retries - 1

\* variant: the lock is taken around the wrapper and held over its sleep
HoldsLockAt_WholeCall(pos) == pos \in {"attempt", "sleep"}

\* the positions inside `with _sqlite_write_lock:`, which is in the body of
\* the decorated function and so inside the try of the wrapper
HoldsLockAt(pos) == pos = "attempt"

\* the threads inside a call of the decorated log_conversion
Retrying == {t \in Threads : "retry" \in DOMAIN inflight[t]}

\* thread t calls log_conversion for a failed conversion of a picklist
LogCall(t, pick_list_id) ==
    /\ inflight[t] = Idle
    /\ inflight' = [inflight EXCEPT ![t] =
            [log |-> FALSE, retry |-> TRUE, pick_list_id |-> pick_list_id,
             pos |-> "lock", attempt |-> 0, delay |-> 1, answers |-> <<>>,
             slept |-> <<>>, inserted |-> 0, outcome |-> "none",
             holds_lock |-> HoldsLockAt("lock")]]
    /\ UNCHANGED <<config, quotation_defaults, conversion_tracking, archived_picklists,
                   Items_tbl, Quotations_tbl, QuotationsDetails_tbl, pick_lists, poller>>

\* thread t acquires the lock and opens its connection
LogAcquire(t) ==
    /\ t \in Retrying
    /\ inflight[t].pos = "lock"
    /\ LockHolders \subseteq {t}
    /\ inflight' = [inflight EXCEPT ![t].pos = "attempt",
                                    ![t].holds_lock = HoldsLockAt("attempt")]
    /\ UNCHANGED <<config, quotation_defaults, conversion_tracking, archived_picklists,
                   Items_tbl, Quotations_tbl, QuotationsDetails_tbl, pick_lists, poller>>

\* the attempt of thread t is answered: the row is committed and the call
\* returns, or the exception leaves the with block and the wrapper sleeps
\* or raises.  A second row for a picklist is answered by IntegrityError.
LogAttempt(t, answer) ==
    /\ t \in Retrying
    /\ inflight[t].pos = "attempt"
    /\ answer = "ok" => ~UniqueViolation(conversion_tracking, inflight[t].pick_list_id)
    /\ LET w == inflight[t]
           heard == [w EXCEPT !.answers = Append(@, answer)]
           pos == IF answer = "ok" THEN "returned"
                  ELSE IF ShouldRetry(answer, w.attempt) THEN "sleep"
                  ELSE "returned"
       IN  /\ inflight' = [inflight EXCEPT ![t] =
                   [heard EXCEPT !.pos = pos,
                                 !.holds_lock = HoldsLockAt(pos),
                                 !.inserted = IF answer = "ok" THEN @ + 1 ELSE @,
                                 !.outcome = IF pos = "sleep" THEN "none"
                                             ELSE IF answer = "ok" THEN "ok" ELSE "raise"]]
           /\ conversion_tracking' =
                 IF answer = "ok"
                 THEN log_conversion(conversion_tracking, w.pick_list_id, FALSE, 0, <<>>,
                                     Error("Database error"), "none").table
                 ELSE conversion_tracking
    /\ UNCHANGED <<config, quotation_defaults, archived_picklists,
                   Items_tbl, Quotations_tbl, QuotationsDetails_tbl, pick_lists, poller>>

\* time.sleep(delay) of thread t ends: delay *= 2 and the next turn of the
\* loop
LogWake(t) ==
    /\ t \in Retrying
    /\ inflight[t].pos = "sleep"
    /\ inflight' = [inflight EXCEPT ![t].pos = "lock",
                                    ![t].holds_lock = HoldsLockAt("lock"),
                                    ![t].slept = Append(@, inflight[t].delay),
                                    ![t].delay = @ * 2,
                                    ![t].attempt = @ + 1]
    /\ UNCHANGED <<config, quotation_defaults, conversion_tracking, archived_picklists,
                   Items_tbl, Quotations_tbl, QuotationsDetails_tbl, pick_lists, poller>>

\* the caller of thread t goes on (convert_picklist catches what was raised)
LogReturn(t) ==
    /\ t \in Retrying
    /\ inflight[t].pos = "returned"
    /\ inflight' = [inflight EXCEPT ![t] = Idle]
    /\ UNCHANGED <<config, quotation_defaults, conversion_tracking, archived_picklists,
                   Items_tbl, Quotations_tbl, QuotationsDetails_tbl, pick_lists, poller>>

InitRetry == Init /\ pick_lists = <<1, 2>>

\* the calls of log_conversion, beside POST /api/history/delete-failed of a
\* request thread
NextRetry ==
    \/ \E t \in Threads, p \in PicklistIds : LogCall(t, p)
    \/ \E t \in Threads : LogAcquire(t)
    \/ \E t \in Threads, answer \in StoreAnswers : LogAttempt(t, answer)
    \/ \E t \in Threads : LogWake(t)
    \/ \E t \in Threads : LogReturn(t)
    \/ BeginWrite("request", "delete_all_failed_conversions", 0)
    \/ CommitWrite("request")

SpecRetry == InitRetry /\ [][NextRetry]_vars

(***************************************************************************)
(* The loop of the polling service with its interval: a loop thread reads  *)
(* the interval at the top of the try block, converts the pending          *)
(* picklists one by one and sleeps the interval second by second.  The     *)
(* PollingService object carries, for every loop thread, the locals of     *)
(* _poll_loop and of convert_all_pending:                                  *)
(*   interval   `interval` of the cycle it is in (0 before its first)      *)
(*   pending    the picklists of `pending_picklists` not yet attempted     *)
(*   remaining  the turns left of `for _ in range(interval)`               *)
(* and previous, the interval of the cycle before (0 in the first cycle).  *)
(* The service is started once; what a start after a stop does to a loop   *)
(* thread that is still alive is in SpecPoller.                            *)
(***************************************************************************)
\* the default of `defaults.get('polling_interval_seconds', 60) if defaults
\* else 60`
DefaultInterval == 60

\* the intervals a request saves with the defaults
Intervals == {1, 2}

\* poller.py:22
PollingInterval(defaults) ==
    IF defaults.present THEN defaults.polling_interval_seconds ELSE DefaultInterval

\* variant: the interval is read in the first cycle of a thread only
IntervalAtTop_ReadOnce(ps, i, defaults) ==
    IF ps.interval[i] = 0 THEN PollingInterval(defaults) ELSE ps.interval[i]

\* the interval of the cycle loop thread i begins (poller.py:21-22, inside
\* `while self.running:`)
IntervalAtTop(ps, i, defaults) == PollingInterval(defaults)

\* variant: the loop of convert_all_pending tests the flag of the service
ContinuesBatch_UntilStopped(ps, rest) == rest # <<>> /\ ps.running

\* `for picklist in pending_picklists:` goes on while picklists are left
ContinuesBatch(ps, rest) == rest # <<>>

\* variant: the interval loop does not test the flag
SleepBreaks_Never(ps) == FALSE

\* `if not self.running: break` of the interval loop
SleepBreaks(ps) == ~ps.running

\* POST /api/config/quotation-defaults with a polling interval
SaveDefaultsWithInterval(customer_id, interval) ==
    /\ quotation_defaults' = [present |-> TRUE, customer_id |-> customer_id,
                              polling_interval_seconds |-> interval]
    /\ UNCHANGED <<config, conversion_tracking, archived_picklists, Items_tbl,
                   Quotations_tbl, QuotationsDetails_tbl, pick_lists, inflight, poller>>

\* the top of the try block of loop thread i: the interval, and
\* convert_all_pending up to its loop (get_config and the pending set); a
\* SQLite read that raises is caught by the except block
CycleTop(i, outcome) ==
    /\ poller.loops[i] = "cycle"
    /\ IF outcome = "raise"
       THEN poller' = [poller EXCEPT !.loops[i] = OnCycleException]
       ELSE LET interval == IntervalAtTop(poller, i, quotation_defaults)
                found == get_pending_picklists(pick_lists, conversion_tracking,
                                               archived_picklists)
                pending == IF config.present
                           THEN [k \in DOMAIN found |-> found[k].id] ELSE <<>>
            IN  poller' = [poller EXCEPT
                    !.interval[i] = interval,
                    !.previous[i] = poller.interval[i],
                    !.pending[i] = pending,
                    !.loops[i] = IF pending = <<>> THEN "sleep" ELSE "batch",
                    !.remaining[i] = IF pending = <<>> THEN interval ELSE @]
    /\ UNCHANGED <<config, quotation_defaults, conversion_tracking, archived_picklists,
                   Items_tbl, Quotations_tbl, QuotationsDetails_tbl, pick_lists, inflight>>

\* one turn of the loop of convert_all_pending in loop thread i; after the
\* last picklist the interval loop begins
BatchStep(i) ==
    /\ poller.loops[i] = "batch"
    /\ LET picklist_id == Head(poller.pending[i])
           rest == Tail(poller.pending[i])
           Returned(db) ==
               /\ conversion_tracking' = db.tracking
               /\ Items_tbl' = db.items
               /\ Quotations_tbl' = db.quotations
               /\ QuotationsDetails_tbl' = db.details
       IN  /\ Returned(convert_picklist(config, quotation_defaults, DB, picklist_id,
                                        "none").db)
           /\ poller' = IF ContinuesBatch(poller, rest)
                        THEN [poller EXCEPT !.pending[i] = rest]
                        ELSE [poller EXCEPT !.pending[i] = <<>>,
                                            !.loops[i] = "sleep",
                                            !.remaining[i] = poller.interval[i]]
    /\ UNCHANGED <<config, quotation_defaults, archived_picklists, pick_lists, inflight>>

\* one turn of `for _ in range(interval)` of loop thread i: the range is
\* over or the flag is down and the loop is left, or one second is slept
SleepTick(i) ==
    /\ poller.loops[i] = "sleep"
    /\ poller' = IF poller.remaining[i] = 0 \/ SleepBreaks(poller)
                 THEN [poller EXCEPT !.loops[i] = "test"]
                 ELSE [poller EXCEPT !.remaining[i] = @ - 1]
    /\ UNCHANGED <<config, quotation_defaults, conversion_tracking, archived_picklists,
                   Items_tbl, Quotations_tbl, QuotationsDetails_tbl, pick_lists, inflight>>

\* the service object with the locals of its loop threads
InitScheduler ==
    /\ pick_lists = <<2, 4>>
    /\ config = NoConfig
    /\ quotation_defaults = NoDefaults
    /\ conversion_tracking = {}
    /\ archived_picklists = {}
    /\ Items_tbl = InitialItems
    /\ Quotations_tbl = LegacyQuotations
    /\ QuotationsDetails_tbl = <<>>
    /\ inflight = [t \in Threads |-> Idle]
    /\ poller = [running |-> FALSE, thread |-> 0, joining |-> 0,
                 loops |-> [i \in LoopIds |-> "unborn"],
                 interval |-> [i \in LoopIds |-> 0],
                 previous |-> [i \in LoopIds |-> 0],
                 pending |-> [i \in LoopIds |-> <<>>],
                 remaining |-> [i \in LoopIds |-> 0]]

NextScheduler ==
    \/ \E e \in BOOLEAN : SaveConfig(e)
    \/ \E c \in CustomerIds, n \in Intervals : SaveDefaultsWithInterval(c, n)
    \/ poller.thread = 0 /\ Start
    \/ Stop
    \/ StopReturn
    \/ \E i \in LoopIds : LoopTest(i)
    \/ \E i \in LoopIds, o \in {"none", "raise"} : CycleTop(i, o)
    \/ \E i \in LoopIds : BatchStep(i)
    \/ \E i \in LoopIds : SleepTick(i)
    \/ \E i \in LoopIds : Backoff(i)

SpecScheduler == InitScheduler /\ [][NextScheduler]_vars

\* the operating system runs every loop thread that can take a step; a
\* thread in the loop of convert_all_pending can always take its next turn,
\* so weak fairness of BatchStep is written with that position
SpecSchedulerFair == SpecScheduler /\ \A i \in LoopIds :
    /\ WF_vars(LoopTest(i))
    /\ WF_vars(\E o \in {"none", "raise"} : CycleTop(i, o))
    /\ ([]<>(poller.loops[i] # "batch") \/ []<><<BatchStep(i)>>_vars)
    /\ WF_vars(SleepTick(i))
    /\ WF_vars(Backoff(i))

(***************************************************************************)
(* Properties.  Call(p, f) is what convertOne(p) returns and leaves behind *)
(* when it is called in the current state and meets the fault f.           *)
(***************************************************************************)
Call(p, f) == convert_picklist(config, quotation_defaults, DB, p, f)

\* what the Quotation Builder returns for picklist p in the current state
Built(p, f) ==
    create_quotation(config, Items_tbl, Quotations_tbl, QuotationsDetails_tbl, p,
                     get_picklist_products(p), quotation_defaults.customer_id, f)

Configured == config.present /\ quotation_defaults.present

\* the rows of a table of quotations made for picklist p
QuotationsOf(quotations, p) ==
    {i \in DOMAIN quotations : quotations[i].QuotationTitle = p}

DetailsOf(details, quotation_id) ==
    SelectSeq(details, LAMBDA r : r.QuotationID = quotation_id)

\* the ids of the picklists in the pending set of the current state
PendingIds ==
    LET pending == get_pending_picklists(pick_lists, conversion_tracking,
                                         archived_picklists)
    IN  {pending[i].id : i \in DOMAIN pending}

HasRecord(table, p, success) ==
    \E r \in table : r.pick_list_id = p /\ r.success = success

\* the barcodes of a catalog
Barcodes(items) == {items[i].ProductUPC : i \in DOMAIN items}

\* the unit price the catalog holds for a barcode
CatalogPrice(items, barcode) ==
    LET i == CHOOSE j \in DOMAIN items : items[j].ProductUPC = barcode
    IN  IF items[i].UnitPrice = NULL THEN 0 ELSE items[i].UnitPrice

\* sum over the lines of quantity x catalog unit price
RECURSIVE LinesTotal(_, _)
LinesTotal(lines, items) ==
    IF lines = <<>> THEN 0
    ELSE lines[1].amount * CatalogPrice(items, lines[1].barcode)
         + LinesTotal(Tail(lines), items)

\* quotation i of the table is complete: it has its total, and one detail
\* row per eligible line of its picklist
Complete(quotations, details, i) ==
    LET q == quotations[i]
        rows == DetailsOf(details, q.QuotationID)
    IN  /\ q.QuotationTotal # NULL
        /\ q.QuotationTotal = SumExtendedPrice(rows)
        /\ Len(rows) = Len(get_picklist_products(q.QuotationTitle))

\* C1: a picklist that the ledger records as successfully converted is
\* never converted again: no step adds a quotation for it (so at most one
\* quotation exists per picklist).
C1_ConvertedNeverConvertedAgain ==
    [][\A p \in AllPicklistIds :
          HasRecord(conversion_tracking, p, TRUE) =>
              Cardinality(QuotationsOf(Quotations_tbl', p))
                  = Cardinality(QuotationsOf(Quotations_tbl, p))]_vars

\* C2: a picklist with a successful ConversionRecord is not in the pending
\* set computed afterwards.
C2_ConvertedNotPending ==
    \A r \in conversion_tracking : r.success => r.pick_list_id \notin PendingIds

\* C3: the pending set holds no archived picklist, whatever its conversion
\* status, and holds every picklist that is not (or no longer) archived.
C3_ArchivedPrecedence ==
    \A p \in PicklistIds : p \in PendingIds <=> p \notin archived_picklists

\* C3 witness: an archived picklist with a successful record, and another
\* picklist that is pending with a failed record
C3_Witness ==
    /\ \E p \in archived_picklists : HasRecord(conversion_tracking, p, TRUE)
    /\ \E p \in PicklistIds \ archived_picklists :
          HasRecord(conversion_tracking, p, FALSE)

\* C4: when an eligible line of the picklist is still without a catalog item
\* after healing, convertOne fails and creates no quotation header and no
\* quotation line, though other lines matched.
C4_AllOrNothing ==
    \A p \in PicklistIds, f \in Faults :
        LET r == Call(p, f)
            lines == get_picklist_products(p)
        IN  (\E i \in DOMAIN lines : lines[i].barcode \notin Barcodes(r.db.items))
            => /\ ~r.success
               /\ r.db.quotations = Quotations_tbl
               /\ r.db.details = QuotationsDetails_tbl

\* C4 witness: picklist 2 was attempted and healing copied its barcode 777,
\* one of its lines matches, one is in no catalog, and no quotation exists
C4_Witness ==
    /\ 2 \in PicklistIds
    /\ \E r \in conversion_tracking :
          /\ r.pick_list_id = 2
          /\ r.error_message.kind = "Unable to match products"
    /\ {"123", "777"} \subseteq Barcodes(Items_tbl)
    /\ "999" \notin Barcodes(Items_tbl)
    /\ QuotationsOf(Quotations_tbl, 2) = {}
    /\ Configured /\ ~Call(2, "none").success

\* C5: when a step of the Quotation Builder fails, the builder returns a
\* failure (it does not raise) and the quotation store is as before; and
\* every quotation in the store has its total and all of its detail rows.
C5_BuilderAtomic ==
    /\ \A p \in PicklistIds, f \in BuilderFaults :
          LET b == Built(p, f)
          IN  /\ ~b.raised /\ ~b.success /\ b.error_msg # NoError
              /\ b.quotation_id = 0
              /\ b.quotations = Quotations_tbl
              /\ b.details = QuotationsDetails_tbl
    /\ \A p \in PicklistIds :
          quotation_defaults.customer_id \notin Customers_tbl =>
              LET b == Built(p, "none")
              IN  /\ ~b.raised /\ ~b.success
                  /\ b.quotations = Quotations_tbl
                  /\ b.details = QuotationsDetails_tbl
    /\ \A i \in DOMAIN Quotations_tbl :
          Quotations_tbl[i].QuotationTitle # 0 =>
              Complete(Quotations_tbl, QuotationsDetails_tbl, i)
    /\ \A i \in DOMAIN QuotationsDetails_tbl :
          \E j \in DOMAIN Quotations_tbl :
              Quotations_tbl[j].QuotationID = QuotationsDetails_tbl[i].QuotationID

\* C5 witness: a builder step failed for picklist 1 (the ledger holds the
\* database error) after an earlier quotation had been committed
C5_Witness ==
    /\ \E r \in conversion_tracking :
          r.pick_list_id = 1 /\ r.error_message.kind = "Database error"
    /\ Created(Quotations_tbl) > 0
    /\ Configured /\ quotation_defaults.customer_id \in Customers_tbl
    /\ ~Built(1, "detailN").success

\* C6: on a configured system whose backends respond, a picklist with
\* eligible lines whose barcodes are all in the primary catalog, and whose
\* customer exists, is converted, and the header's total is the sum of
\* quantity x unit price over its eligible lines, which is the sum of the
\* extended prices of the detail rows of that quotation.
C6_TotalIsSumOfLines ==
    \A p \in PicklistIds :
        LET lines == get_picklist_products(p)
            r == Call(p, "none")
        IN  (/\ Configured
             /\ lines # <<>>
             /\ \A i \in DOMAIN lines : lines[i].barcode \in Barcodes(Items_tbl)
             /\ quotation_defaults.customer_id \in Customers_tbl)
            => /\ r.success
               /\ \E i \in DOMAIN r.db.quotations :
                     LET q == r.db.quotations[i]
                     IN  /\ i \notin DOMAIN Quotations_tbl
                         /\ q.QuotationID = r.quotation_id
                         /\ q.QuotationTitle = p
                         /\ q.QuotationTotal = LinesTotal(lines, Items_tbl)
                         /\ q.QuotationTotal =
                               SumExtendedPrice(DetailsOf(r.db.details, q.QuotationID))
                         /\ Len(DetailsOf(r.db.details, q.QuotationID)) = Len(lines)

\* C6 witness: picklist 1 (three eligible lines, all in the catalog) has
\* been converted, total 3 x 10 + 2 x 10 + 1 x 4
C6_Witness ==
    \E i \in DOMAIN Quotations_tbl :
        /\ Quotations_tbl[i].QuotationTitle = 1
        /\ Quotations_tbl[i].QuotationTotal = 54
        /\ HasRecord(conversion_tracking, 1, TRUE)

\* C7: the ledger holds at most one successful ConversionRecord per
\* picklist (it holds at most one record per picklist at all), also when
\* the attempts of two threads on the same picklist overlap.
C7_OneSuccessPerPicklist ==
    \A p \in AllPicklistIds :
        /\ Cardinality({r \in conversion_tracking : r.pick_list_id = p /\ r.success}) <= 1
        /\ Cardinality({r \in conversion_tracking : r.pick_list_id = p}) <= 1

\* C7 witness: two successful attempts on one picklist overlapped: a thread
\* is about to record its success while the ledger holds the success of an
\* attempt that started later (its quotation id is greater)
C7_Witness ==
    \E t \in Threads :
        /\ inflight[t] # Idle /\ inflight[t].success
        /\ \E r \in conversion_tracking :
              /\ r.pick_list_id = inflight[t].picklist_id /\ r.success
              /\ r.quotation_id > inflight[t].quotation_id

\* C8: when convertOne succeeds for a picklist not yet recorded as
\* converted (no fault met), the ledger then holds a success record with
\* the new quotation id and number, and the picklist counts as converted,
\* also when the ledger held a failed record for it.
C8_SuccessIsRecorded ==
    \A p \in PicklistIds :
        LET r == Call(p, "none")
        IN  (r.success /\ ~HasRecord(conversion_tracking, p, TRUE))
            => /\ \E x \in r.db.tracking :
                     /\ x.pick_list_id = p /\ x.success
                     /\ x.quotation_id = r.quotation_id
                     /\ x.quotation_number = r.quotation_number
               /\ p \in get_converted_picklist_ids(r.db.tracking)

C10_LedgerFailureIsWarning ==
    \A p \in PicklistIds, f \in {"none", "ledger_locked", "ledger_error"} :
        LET r == Call(p, f)
            b == Built(p, f)
        IN  (Configured /\ r.create_called /\ b.success /\ r.log_raised)
            => /\ r.success /\ r.error_msg = NoError
               /\ r.db.quotations = b.quotations
               /\ r.db.details = b.details
               /\ \E i \in DOMAIN r.db.quotations :
                     /\ i \notin DOMAIN Quotations_tbl
                     /\ r.db.quotations[i].QuotationID = b.quotation_id
                     /\ r.db.quotations[i].QuotationTitle = p
                     /\ Complete(r.db.quotations, r.db.details, i)
               /\ r.db.tracking = conversion_tracking

\* C10 witness: a quotation of a picklist is in the store while the ledger
\* holds a failed record of that picklist, and a further conversion would
\* again succeed with its ledger write rejected
C10_Witness ==
    \E p \in PicklistIds :
        /\ QuotationsOf(Quotations_tbl, p) # {}
        /\ HasRecord(conversion_tracking, p, FALSE)
        /\ Configured /\ Built(p, "none").success
        /\ Call(p, "none").create_called /\ Call(p, "none").log_raised

\* C11: there are never two loop threads of the polling service inside a
\* cycle of the pipeline at the same time (at most one loop is active).
C11_NeverTwoLoops == Cardinality(Working(poller)) <= 1

\* C12: with the lock free, start returns failure and launches nothing when
\* a loop thread is active; it returns success and launches exactly one loop
\* when none is active; and a second start right after it returns failure.
C12_StartOnlyWhenIdle ==
    (poller.joining = 0 /\ \E i \in LoopIds : poller.loops[i] = "unborn") =>
        LET r == start(poller)
        IN  /\ Active(poller) # {} => ~r.success /\ r.poller = poller
            /\ Active(poller) = {} =>
                  /\ r.success
                  /\ Active(r.poller) = {r.poller.thread}
                  /\ r.poller.joining = 0
            /\ ~start(r.poller).success
            /\ start(r.poller).poller = r.poller

\* C13: when a stop call returns success (its join has ended), the loop
\* thread it stopped has exited.
C13_StopMeansExited ==
    [][(poller.joining # 0 /\ poller'.joining = 0)
          => poller'.loops[poller.joining] = "exited"]_vars

\* C14: stop called while the service is not running returns failure (not
\* running) and leaves the PollingService object as it is.
C14_StopWhenNotRunning ==
    ~poller.running =>
        LET r == stop(poller)
        IN  /\ ~r.success
            /\ r.message = "Polling service is not running"
            /\ r.poller = poller

\* C14 witness: the service is not running after a start and a successful
\* stop whose thread has exited
C14_Witness ==
    /\ ~poller.running /\ poller.joining = 0
    /\ poller.thread # 0 /\ poller.loops[poller.thread] = "exited"

Batch(v, f) ==
    convert_all_pending(config, quotation_defaults, pick_lists, DB,
                        archived_picklists, v, f)

\* C16: whatever failure one picklist of the batch meets, convertAllPending
\* calls convertOne for every picklist of the pending set it computed, in
\* order, and returns a summary with converted + failed = the size of that
\* set and one error entry (picklist id and reason) per failed picklist.
C16_BatchAttemptsAll ==
    \A v \in PicklistIds, f \in Faults :
        LET r == Batch(v, f)
            pending == get_pending_picklists(pick_lists, conversion_tracking,
                                             archived_picklists)
        IN  config.present =>
                /\ r.summary /\ ~r.raised
                /\ r.attempted = [i \in DOMAIN pending |-> pending[i].id]
                /\ r.total_pending = Len(pending)
                /\ r.converted + r.failed = Len(pending)
                /\ Len(r.errors) = r.failed
                /\ \A i \in DOMAIN r.errors :
                      /\ r.errors[i].picklist_id \in PendingIds
                      /\ r.errors[i].error # NoError
                /\ \A i, j \in DOMAIN r.errors :
                      r.errors[i].picklist_id = r.errors[j].picklist_id => i = j

\* what Healing Sync returns and leaves in the catalog when it is called in
\* the current state with the list bl and meets the fault f
Heal(bl, f) == copy_products_from_inventory(config, Items_tbl, bl, f)

\* C17: after any number of Healing Sync calls, with lists that may repeat a
\* barcode, the primary catalog holds no two rows of the same barcode: each
\* barcode is copied at most once.
C17_NoDuplicateBarcode ==
    \A i, j \in DOMAIN Items_tbl :
        Items_tbl[i].ProductUPC = Items_tbl[j].ProductUPC => i = j

\* C18: in a Healing Sync call that reaches its insert loop, every barcode
\* of the list ends in exactly one of the lists copied and failed; a barcode
\* the inventory holds and whose INSERT does not raise is copied, and its row
\* is in the catalog the call leaves, whatever happened to the barcodes
\* before it.
C18_InsertsIndependent ==
    \A bl \in BarcodeLists, f \in HealFaults :
        LET r == Heal(bl, f)
            inventory_products == lookup_in_inventory(config, bl, f)
            added == SubSeq(r.items, Len(Items_tbl) + 1, Len(r.items))
        IN  r.has_lists =>
                /\ Len(r.copied) + Len(r.failed) = Len(bl)
                /\ Len(added) = Len(r.copied)
                /\ \A k \in DOMAIN bl :
                      IF bl[k] \in DOMAIN inventory_products /\ ~InsertRaises(bl[k], f)
                      THEN /\ bl[k] \in Range(r.copied)
                           /\ InsertedRow(inventory_products[bl[k]]) \in Range(added)
                      ELSE bl[k] \in Range(r.failed)

\* C18 witness: the catalog has received 888 and not 777, and a call with
\* the list 777, 888 whose INSERT of 777 raises copies 888 all the same
C18_Witness ==
    /\ InventoryConfigured(config)
    /\ "888" \in Barcodes(Items_tbl)
    /\ "777" \notin Barcodes(Items_tbl)
    /\ Heal(<<"777", "888">>, "heal_insert").copied = <<"888">>
    /\ Heal(<<"777", "888">>, "heal_insert").failed = <<"777">>

\* C19: whatever a Healing Sync call meets, called on its own or from the
\* auto-sync of a conversion, the catalog it leaves begins with the rows the
\* catalog had, in order and unchanged: rows are only added.  (The inventory
\* is read by one SELECT and is no variable of the model.)
C19_PurelyAdditive ==
    \A bl \in BarcodeLists, f \in HealFaults :
        LET r == Heal(bl, f)
            a == auto_sync_from_inventory(config, Items_tbl, bl, f)
        IN  /\ Len(r.items) >= Len(Items_tbl)
            /\ SubSeq(r.items, 1, Len(Items_tbl)) = Items_tbl
            /\ Len(a.items) >= Len(Items_tbl)
            /\ SubSeq(a.items, 1, Len(Items_tbl)) = Items_tbl

\* C19 witness: Healing Sync has copied barcode 123, which the catalog held
\* at a price the inventory does not have, and the first rows are as before
C19_Witness ==
    /\ Len(Items_tbl) > Len(InitialItems)
    /\ SubSeq(Items_tbl, 1, Len(InitialItems)) = InitialItems
    /\ \E i \in DOMAIN Items_tbl :
          /\ i > Len(InitialItems)
          /\ Items_tbl[i].ProductUPC = "123"
          /\ Items_tbl[i].UnitPrice # InitialItems[1].UnitPrice

\* C20: on a configured system with an existing default customer, the
\* healing source enabled and no step failing, convertOne of a picklist
\* whose eligible lines all have a barcode of the catalog or of the healing
\* source succeeds: the barcodes the catalog lacked are each copied into it,
\* and one quotation is created for the picklist with one line per eligible
\* line, in order, for its barcode and quantity.
C20_HealedConversionSucceeds ==
    \A p \in PicklistIds :
        LET r == Call(p, "none")
            lines == get_picklist_products(p)
            wanted == {lines[i].barcode : i \in DOMAIN lines}
            missing == wanted \ Barcodes(Items_tbl)
            quotation_id == Len(Quotations_tbl) + 1
            rows == DetailsOf(r.db.details, quotation_id)
        IN  (/\ Configured /\ InventoryConfigured(config)
             /\ quotation_defaults.customer_id \in Customers_tbl
             /\ lines # <<>>
             /\ wanted \subseteq Barcodes(Items_tbl) \cup Barcodes(Inventory_Items_tbl))
            => /\ r.success
               /\ r.sync_called <=> missing # {}
               /\ Len(r.db.items) = Len(Items_tbl) + Cardinality(missing)
               /\ wanted \subseteq Barcodes(r.db.items)
               /\ Len(r.db.quotations) = Len(Quotations_tbl) + 1
               /\ r.db.quotations[quotation_id].QuotationTitle = p
               /\ Len(r.db.details) = Len(QuotationsDetails_tbl) + Len(lines)
               /\ Len(rows) = Len(lines)
               /\ \A i \in DOMAIN lines :
                     /\ rows[i].ProductUPC = lines[i].barcode
                     /\ rows[i].Qty = lines[i].amount

\* C20 witness: picklist 3, whose line is 2 of barcode 777, has a quotation
\* with that line, a successful record, and 777 is now in the catalog
C20_Witness ==
    /\ 3 \in PicklistIds
    /\ "777" \in Barcodes(Items_tbl)
    /\ HasRecord(conversion_tracking, 3, TRUE)
    /\ \E q \in QuotationsOf(Quotations_tbl, 3) :
          LET rows == DetailsOf(QuotationsDetails_tbl, Quotations_tbl[q].QuotationID)
          IN  Len(rows) = 1 /\ rows[1].ProductUPC = "777" /\ rows[1].Qty = 2

\* C21: at most one thread is inside a method that writes the ledger store,
\* and every thread inside one holds the single writer lock.
C21_OneLedgerWriteInFlight ==
    /\ Cardinality(Writing) <= 1
    /\ \A t \in Writing : inflight[t].holds_lock

\* C22: a builder inserts its quotation with the number it read when it
\* began, whatever other builders have committed since; so two builders
\* that overlap can read the same maximum and both commit a quotation with
\* the same number.
C22_InsertsTheNumberRead ==
    [][\A t \in Building :
          inflight'[t] = Idle =>
              /\ Len(Quotations_tbl') = Len(Quotations_tbl) + 1
              /\ Quotations_tbl'[Len(Quotations_tbl')].QuotationNumber = inflight[t].read_number]_vars

\* C22 witness: two quotations created for different picklists carry the
\* same number, and both conversions are recorded as successful
C22_Witness ==
    \E i, j \in DOMAIN Quotations_tbl :
        /\ Len(LegacyQuotations) < i /\ i < j
        /\ Quotations_tbl[i].QuotationNumber = Quotations_tbl[j].QuotationNumber
        /\ Quotations_tbl[i].QuotationTitle # Quotations_tbl[j].QuotationTitle
        /\ HasRecord(conversion_tracking, Quotations_tbl[i].QuotationTitle, TRUE)
        /\ HasRecord(conversion_tracking, Quotations_tbl[j].QuotationTitle, TRUE)

\* the numeric value of the QuotationNumber of row i of a table of quotations
NumberOf(quotations, i) == CastBigint(quotations[i].QuotationNumber)

\* the rows of a table of quotations whose number is purely numeric
Numeric(quotations) ==
    {i \in DOMAIN quotations : PurelyNumeric(quotations[i].QuotationNumber)}

\* C23: conversions running one at a time: a successful convertOne gives its
\* quotation the number max + 1 over the purely numeric numbers of the table
\* (1 when there is none), a number above every such number and carried by
\* no other quotation; the numbers of the quotations created so far increase
\* strictly in order of creation.
C23_NextNumberIsMaxPlusOne ==
    /\ \A p \in PicklistIds :
          LET r == Call(p, "none")
              numeric == Numeric(Quotations_tbl)
              expected == IF numeric = {} THEN 1
                          ELSE Max({NumberOf(Quotations_tbl, i) : i \in numeric}) + 1
          IN  r.success =>
                /\ Len(r.db.quotations) = Len(Quotations_tbl) + 1
                /\ r.db.quotations[Len(r.db.quotations)].QuotationNumber = Str(expected)
                /\ \A i \in numeric : NumberOf(Quotations_tbl, i) < expected
                /\ \A i \in DOMAIN Quotations_tbl :
                      Quotations_tbl[i].QuotationNumber # Str(expected)
    /\ \A i, j \in DOMAIN Quotations_tbl :
          (i < j /\ Quotations_tbl[i].QuotationTitle # 0 /\ Quotations_tbl[j].QuotationTitle # 0)
          => NumberOf(Quotations_tbl, i) < NumberOf(Quotations_tbl, j)

\* C24: when the configuration or the defaults record is absent,
\* convertAllPending fails as a whole: it returns an error and no summary,
\* calls convertOne for no picklist, counts no picklist as failed and makes
\* no error entry.
C24_ConfigMissingFailsWhole ==
    LET r == Batch(0, "none")
    IN  (~config.present \/ ~quotation_defaults.present)
        => /\ r.error # NoError /\ ~r.summary
           /\ r.attempted = <<>>
           /\ r.failed = 0
           /\ r.errors = <<>>

\* C25: every picklist of a cycle is converted with the configuration and
\* the defaults the stores held when the cycle began: a turn of the loop
\* leaves the tables as a conversion with those values leaves them.
C25_CycleUsesStartSnapshot ==
    [][\A t \in Cycling :
          LET w == inflight[t]
              r == convert_picklist(w.config_at_start, w.defaults_at_start, DB,
                                    Head(w.pending), "none")
          IN  inflight'[t] # inflight[t] =>
                  /\ conversion_tracking' = r.db.tracking
                  /\ Items_tbl' = r.db.items
                  /\ Quotations_tbl' = r.db.quotations
                  /\ QuotationsDetails_tbl' = r.db.details]_vars

\* the entry of a failure message that reports a line as unmatched
UnmatchedMsg(line) ==
    IF line.barcode = NoBarcode THEN NoBarcodeMsg(line) ELSE BarcodeMsg(line)

\* the eligible lines of picklist p that have no item in a catalog
UnmatchedLines(p, items) ==
    SelectSeq(get_picklist_products(p),
              LAMBDA l : l.barcode = NoBarcode \/ l.barcode \notin Barcodes(items))

\* C26: when convertOne fails at the gate, its message has one entry for
\* every eligible line that has no item in the catalog the call leaves (by
\* barcode and name, or by name when the line has no barcode), and no other
\* entry.
C26_MessageListsEveryUnmatched ==
    \A p \in PicklistIds, f \in Faults :
        LET r == Call(p, f)
            left == UnmatchedLines(p, r.db.items)
        IN  r.error_msg.kind = "Unable to match products" =>
                /\ ~r.success
                /\ left # <<>>
                /\ Len(r.error_msg.items) = Len(left)
                /\ Range(r.error_msg.items) = {UnmatchedMsg(left[i]) : i \in DOMAIN left}

\* C26 witness: picklist 2 was attempted with healing enabled: 777 was
\* copied, and the recorded message lists B2 (barcode 999) and B3 (no
\* barcode), the two lines left unmatched
C26_Witness ==
    /\ 2 \in PicklistIds
    /\ "777" \in Barcodes(Items_tbl)
    /\ \E r \in conversion_tracking :
          /\ r.pick_list_id = 2 /\ ~r.success
          /\ r.error_message.kind = "Unable to match products"
          /\ Range(r.error_message.items) =
                {<<"Barcode", "999", "B2">>, <<"has no barcode", "B3">>}

\* C27: when a line of the picklist matches and another does not, even after
\* healing, the failure message of convertOne reports both: every eligible
\* line of the picklist is named in an entry of the message.
C27_MessageReportsMatchedToo ==
    \A p \in PicklistIds :
        LET r == Call(p, "none")
            lines == get_picklist_products(p)
        IN  (/\ r.error_msg.kind = "Unable to match products"
             /\ \E i \in DOMAIN lines : lines[i].barcode \in Barcodes(r.db.items))
            => \A i \in DOMAIN lines :
                  \E k \in DOMAIN r.error_msg.items :
                      lines[i].name \in Range(r.error_msg.items[k])

\* C28: a line without a barcode is never passed to Healing Sync, and a
\* picklist with an eligible line without a barcode is never converted: the
\* call fails, creates no quotation, and a failure at the gate reports the
\* line as having no barcode.
C28_NoBarcodeNeverHealed ==
    \A p \in PicklistIds, f \in Faults :
        LET r == Call(p, f)
            b == Built(p, f)
            lines == get_picklist_products(p)
            without == SelectSeq(lines, LAMBDA l : l.barcode = NoBarcode)
        IN  /\ NoBarcode \notin Range(b.sync_barcodes)
            /\ without # <<>> =>
                  /\ ~r.success /\ ~b.success
                  /\ r.db.quotations = Quotations_tbl
                  /\ r.db.details = QuotationsDetails_tbl
                  /\ r.error_msg.kind = "Unable to match products" =>
                        \A i \in DOMAIN without :
                            NoBarcodeMsg(without[i]) \in Range(r.error_msg.items)

\* C28 witness: picklist 2, which has a line without a barcode, was
\* attempted with healing enabled: the catalog got 777 and nothing else, no
\* quotation exists for it and the record reports B3 as having no barcode
C28_Witness ==
    /\ 2 \in PicklistIds
    /\ Barcodes(Items_tbl) = Barcodes(InitialItems) \cup {"777"}
    /\ QuotationsOf(Quotations_tbl, 2) = {}
    /\ \E r \in conversion_tracking :
          /\ r.pick_list_id = 2 /\ ~r.success
          /\ <<"has no barcode", "B3">> \in Range(r.error_message.items)

\* C29: in the Quotation Builder, Healing Sync is called exactly when a line
\* with a barcode has no item after the first match, with the barcodes of
\* those lines and no other; when every such line matched, the call leaves
\* the catalog as it was.
C29_HealingGetsExactlyTheGaps ==
    \A p \in PicklistIds, f \in Faults \ {"match"} :
        LET b == Built(p, f)
            lines == get_picklist_products(p)
            gaps == {lines[i].barcode : i \in DOMAIN lines} \ (Barcodes(Items_tbl) \cup {NoBarcode})
        IN  lines # <<>> =>
                /\ b.sync_called <=> gaps # {}
                /\ Range(b.sync_barcodes) = gaps
                /\ gaps = {} => b.items = Items_tbl

\* C29 witness: picklist 3 was converted and the catalog has grown by the one
\* row of its barcode 777
C29_Witness ==
    /\ HasRecord(conversion_tracking, 3, TRUE)
    /\ Len(Items_tbl) = Len(InitialItems) + 1
    /\ Items_tbl[Len(Items_tbl)].ProductUPC = "777"
    /\ SubSeq(Items_tbl, 1, Len(InitialItems)) = InitialItems

\* C30: the auto-sync of Healing Sync reports every barcode it was given as
\* synced or as failed and none as both, and synced_count + failed_count is
\* the number of barcodes it was given.
C30_EveryBarcodeHasAnOutcome ==
    \A bl \in BarcodeLists, f \in HealFaults :
        LET a == auto_sync_from_inventory(config, Items_tbl, bl, f)
        IN  /\ Range(a.synced_barcodes) \cap Range(a.failed_barcodes) = {}
            /\ Range(a.synced_barcodes) \cup Range(a.failed_barcodes) = Range(bl)
            /\ a.synced_count + a.failed_count = Len(bl)

\* the unit cost the catalog holds for a barcode
CatalogCost(items, barcode) ==
    LET i == CHOOSE j \in DOMAIN items : items[j].ProductUPC = barcode
    IN  IF items[i].UnitCost = NULL THEN 0 ELSE items[i].UnitCost

\* C31: the quotation a successful convertOne creates has one detail row per
\* eligible line of the picklist, in order (two lines of one barcode give
\* two rows); the row of a line carries its barcode and quantity, the unit
\* price and unit cost of the catalog item (0 for none), extended price =
\* quantity x unit price, extended cost = quantity x unit cost, and an
\* original price equal to the unit price.
C31_OneDetailRowPerLine ==
    \A p \in PicklistIds, f \in Faults :
        LET r == Call(p, f)
            lines == get_picklist_products(p)
            rows == DetailsOf(r.db.details, r.quotation_id)
        IN  r.success =>
                /\ r.db.details = QuotationsDetails_tbl \o rows
                /\ Len(rows) = Len(lines)
                /\ \A i \in DOMAIN lines :
                      LET price == CatalogPrice(r.db.items, lines[i].barcode)
                          cost == CatalogCost(r.db.items, lines[i].barcode)
                      IN  /\ rows[i].ProductUPC = lines[i].barcode
                          /\ rows[i].Qty = lines[i].amount
                          /\ rows[i].UnitPrice = price
                          /\ rows[i].UnitCost = cost
                          /\ rows[i].OriginalPrice = price
                          /\ rows[i].ExtendedPrice = lines[i].amount * price
                          /\ rows[i].ExtendedCost = lines[i].amount * cost

\* C31 witness: picklist 1 was converted: its two lines of barcode 123 gave
\* two rows, 3 x 10 (cost 3 x 6) and 2 x 10 (cost 2 x 6), and the line of
\* barcode 456, whose item has no cost, a third row
C31_Witness ==
    \E q \in QuotationsOf(Quotations_tbl, 1) :
        LET rows == DetailsOf(QuotationsDetails_tbl, Quotations_tbl[q].QuotationID)
        IN  /\ Len(rows) = 3
            /\ rows[1].ProductUPC = "123" /\ rows[1].Qty = 3
            /\ rows[1].ExtendedPrice = 30 /\ rows[1].ExtendedCost = 18
            /\ rows[2].ProductUPC = "123" /\ rows[2].Qty = 2
            /\ rows[2].ExtendedPrice = 20 /\ rows[2].ExtendedCost = 12
            /\ rows[3].ProductUPC = "456" /\ rows[3].UnitCost = 0

\* 2^n, the delay after n doublings, in units of initial_delay
RECURSIVE Doubled(_)
Doubled(n) == IF n = 0 THEN 1 ELSE 2 * Doubled(n - 1)

\* C32: inside a call of log_conversion, at most max_retries attempts are
\* made; every answer that was followed by another attempt was 'database is
\* locked'; the delays slept are initial_delay, doubled after each retry; the
\* call returns with one row inserted on the first accepted attempt, and
\* raises with no row inserted on the first other error or on the
\* max_retries-th 'database is locked'.
C32_RetryOnlyOnLockedWithDoubling ==
    \A t \in Retrying :
        LET w == inflight[t]
            n == Len(w.answers)
        IN  /\ n <= max_retries
            /\ w.attempt < max_retries
            /\ n = IF w.pos \in {"lock", "attempt"} THEN w.attempt ELSE w.attempt + 1
            /\ \A i \in 1..(n - 1) : w.answers[i] = "locked"
            /\ Len(w.slept) = w.attempt
            /\ \A i \in DOMAIN w.slept : w.slept[i] = Doubled(i - 1)
            /\ w.delay = Doubled(w.attempt)
            /\ w.inserted <= 1
            /\ w.pos = "sleep" => w.answers[n] = "locked" /\ n < max_retries /\ w.inserted = 0
            /\ w.pos = "returned" =>
                   /\ w.outcome = "ok" <=> w.answers[n] = "ok"
                   /\ w.outcome = "raise" <=>
                          \/ w.answers[n] = "error"
                          \/ w.answers[n] = "locked" /\ n = max_retries
                   /\ w.inserted = (IF w.outcome = "ok" THEN 1 ELSE 0)
            /\ w.pos # "returned" => w.outcome = "none" /\ w.inserted = 0

\* a call that raised after max_retries answers of 'database is locked',
\* beside a call that raised on its first attempt
C32_Witness ==
    /\ Retrying = Threads
    /\ \E t \in Threads :
          /\ inflight[t].pos = "returned" /\ inflight[t].outcome = "raise"
          /\ Len(inflight[t].answers) = max_retries
          /\ inflight[t].slept[max_retries - 1] = Doubled(max_retries - 2)
    /\ \E t \in Threads :
          /\ inflight[t].pos = "returned" /\ inflight[t].outcome = "raise"
          /\ inflight[t].answers = <<"error">>

\* the threads in the time.sleep(delay) of the wrapper
Sleeping == {t \in Retrying : inflight[t].pos = "sleep"}

\* C39: a call of log_conversion that sleeps in its backoff does not hold
\* the write lock; while it sleeps, the lock is held only for the length of
\* another caller's own write, so a caller waiting at the lock (a log, or a
\* delete of the request thread) can take it as soon as no write is inside.
C39_LockFreeDuringBackoff ==
    /\ Sleeping \cap LockHolders = {}
    /\ \A t \in Sleeping : \A u \in Threads \ {t} :
          /\ LockHolders \subseteq {u}
          /\ (u \in Retrying /\ inflight[u].pos = "lock") => ENABLED LogAcquire(u)
          /\ (u = "request" /\ inflight[u] = Idle) =>
                 ENABLED BeginWrite(u, "delete_all_failed_conversions", 0)
          /\ u \in LockHolders =>
                 \/ ENABLED CommitWrite(u)
                 \/ \E answer \in StoreAnswers : ENABLED LogAttempt(u, answer)

\* one call sleeps in its backoff while the other thread is inside its
\* write, holding the lock
C39_Witness ==
    \E t \in Sleeping, u \in LockHolders :
        /\ u # t
        /\ Len(inflight[t].slept) >= 1

\* C33: with the flag down (stop was called) and not raised again, a loop
\* thread in its interval loop sleeps no further second: its next step
\* leaves the interval loop, the `while` test that follows ends the thread,
\* and it enters no cycle; under fair scheduling it does exit.
C33_StopDuringSleepEndsLoop ==
    /\ [][\A i \in LoopIds :
            (~poller.running /\ ~poller'.running) =>
                /\ poller.loops[i] = "sleep" =>
                       \/ poller'.loops[i] = "test"
                       \/ /\ poller'.loops[i] = "sleep"
                          /\ poller'.remaining[i] = poller.remaining[i]
                /\ poller.loops[i] = "test" => poller'.loops[i] \in {"test", "exited"}
                /\ poller.loops[i] \in {"sleep", "test", "exited"} =>
                       poller'.loops[i] \notin {"cycle", "batch"}]_vars
    /\ \A i \in LoopIds :
          (poller.loops[i] = "sleep" /\ ~poller.running)
              ~> (poller.loops[i] = "exited" \/ poller.running)

\* a loop thread that ended with seconds of its interval not slept
C33_Witness ==
    \E i \in LoopIds :
        /\ poller.loops[i] = "exited"
        /\ poller.remaining[i] > 0
        /\ ~poller.running

\* C34: a turn of the loop of convert_all_pending in a loop thread does the
\* same whether the flag is up or down: it takes the next picklist of the
\* pending set off the list, leaves the stores as convert_picklist leaves
\* them, a conversion that entered the Quotation Builder reaches its ledger
\* call, and the cycle ends only after the last picklist; a cycle with the
\* flag down does go through its remaining picklists.
C34_StopDoesNotInterruptCycle ==
    /\ [][\A i \in LoopIds :
            (poller.loops[i] = "batch" /\ poller'.loops[i] # "batch") =>
                Len(poller.pending[i]) = 1]_vars
    /\ [][\A i \in LoopIds :
            (poller.loops[i] = "batch" /\ poller' # poller
                /\ \A j \in LoopIds \ {i} : poller'.loops[j] = poller.loops[j]
                /\ poller'.running = poller.running
                /\ poller'.joining = poller.joining) =>
                LET p == Head(poller.pending[i])
                    r == convert_picklist(config, quotation_defaults, DB, p, "none")
                IN  /\ poller'.pending[i] = Tail(poller.pending[i])
                    /\ conversion_tracking' = r.db.tracking
                    /\ r.create_called =>
                           /\ r.log_called
                           /\ \E rec \in conversion_tracking' : rec.pick_list_id = p]_vars
    /\ \A i \in LoopIds :
          (poller.loops[i] = "batch" /\ ~poller.running)
              ~> (poller.loops[i] = "sleep" /\ poller.pending[i] = <<>>)

\* a stop has been issued inside a cycle that has recorded its first
\* picklist and has one more to attempt
C34_Witness ==
    \E i \in LoopIds :
        /\ poller.loops[i] = "batch"
        /\ ~poller.running
        /\ poller.joining = i
        /\ Len(poller.pending[i]) = 1
        /\ Configured
        /\ \E rec \in conversion_tracking : rec.pick_list_id = 2

\* C35: the interval of a cycle is the one the defaults hold when the cycle
\* begins (60 when there is no defaults record), whatever the interval of
\* the cycle before; the interval loop that follows starts with that many
\* seconds; and a cycle that finds no defaults record goes on to its
\* conversions or its sleep, it does not end the thread.
C35_IntervalReadEveryCycle ==
    /\ [][\A i \in LoopIds :
            (poller.loops[i] = "cycle" /\ poller'.loops[i] \in {"batch", "sleep"}) =>
                /\ poller'.interval[i] =
                       (IF quotation_defaults.present
                        THEN quotation_defaults.polling_interval_seconds
                        ELSE DefaultInterval)]_vars
    /\ [][\A i \in LoopIds :
            (poller.loops[i] # "sleep" /\ poller'.loops[i] = "sleep") =>
                poller'.remaining[i] = poller'.interval[i]]_vars
    /\ [][\A i \in LoopIds :
            (poller.loops[i] = "cycle" /\ ~quotation_defaults.present) =>
                poller'.loops[i] # "exited"]_vars

\* a loop thread sleeps the interval saved during its previous cycle, which
\* had another interval, while the service has been running all along
C35_Witness ==
    \E i \in LoopIds :
        /\ poller.running /\ poller.thread = i
        /\ poller.loops[i] = "sleep"
        /\ poller.interval[i] = 2
        /\ quotation_defaults.present /\ quotation_defaults.polling_interval_seconds = 2
        /\ poller.remaining[i] = 2
        /\ poller.previous[i] = 1

\* C40: a stop call waiting in join, holding the lock of the service, always
\* returns and frees the lock, also when the cycle in flight never ends;
\* while it waits every loop thread can take its step (the loop takes no
\* lock); and with the lock free a stop call, and a start call while a
\* thread is left to create, can proceed.
C40_StopAlwaysReturns ==
    /\ (poller.joining # 0) ~> (poller.joining = 0)
    /\ [](poller.joining # 0 =>
            \A i \in LoopIds :
                /\ poller.loops[i] = "test" => ENABLED LoopTest(i)
                /\ poller.loops[i] = "cycle" => ENABLED (\E o \in CycleOutcomes : Cycle(i, o))
                /\ poller.loops[i] = "sleep" => ENABLED Sleep(i)
                /\ poller.loops[i] = "backoff" => ENABLED Backoff(i))
    /\ [](poller.joining = 0 =>
            /\ ENABLED Stop
            /\ (\E i \in LoopIds : poller.loops[i] = "unborn") => ENABLED Start)

\* stop has returned and freed the lock while the cycle it waited for is
\* still in flight
C40_Witness ==
    /\ poller.joining = 0
    /\ ~poller.running
    /\ poller.thread # 0
    /\ poller.loops[poller.thread] = "cycle"

\* C36: while the healing source is not configured or switched off, Healing
\* Sync leaves the catalog as it is and reports every barcode it was given
\* as failed and none as synced (its direct call copies nothing); and
\* convertOne of a picklist with a line that has no item in the catalog
\* fails, without raising and without writing a quotation, with the message
\* that lists the unmatched lines.
C36_DisabledHealingIsNoOp ==
    ~(config.present /\ config.inventory_enabled) =>
        /\ \A bl \in BarcodeLists, f \in HealFaults :
              LET a == auto_sync_from_inventory(config, Items_tbl, bl, f)
                  c == Heal(bl, f)
              IN  /\ a.items = Items_tbl
                  /\ a.synced_count = 0 /\ a.synced_barcodes = <<>>
                  /\ a.failed_count = Len(bl) /\ a.failed_barcodes = bl
                  /\ c.items = Items_tbl /\ c.copied = <<>>
        /\ \A p \in PicklistIds, f \in {"none", "inventory_down", "heal_schema", "heal_insert"} :
              LET r == Call(p, f)
                  left == UnmatchedLines(p, Items_tbl)
              IN  (Configured /\ left # <<>>) =>
                      /\ ~r.raised /\ ~r.success
                      /\ r.error_msg.kind = "Unable to match products"
                      /\ Len(r.error_msg.items) = Len(left)
                      /\ Range(r.error_msg.items) = {UnmatchedMsg(left[i]) : i \in DOMAIN left}
                      /\ r.db.items = Items_tbl
                      /\ r.db.quotations = Quotations_tbl
                      /\ r.db.details = QuotationsDetails_tbl

\* picklist 3 was attempted with the healing source switched off: its
\* barcode 777, which the inventory holds, is not in the catalog and the
\* recorded message lists its line
C36_Witness ==
    /\ config.present /\ ~config.inventory_enabled
    /\ "777" \notin Barcodes(Items_tbl)
    /\ \E r \in conversion_tracking :
          /\ r.pick_list_id = 3 /\ ~r.success
          /\ r.error_message.kind = "Unable to match products"
          /\ r.error_message.items = << <<"Barcode", "777", "C1">> >>

C38_SuccessRecordHasCommittedQuotation ==
    /\ \A x \in conversion_tracking :
          x.success =>
              \E q \in DOMAIN Quotations_tbl :
                  /\ Quotations_tbl[q].QuotationID = x.quotation_id
                  /\ Quotations_tbl[q].QuotationNumber = x.quotation_number
                  /\ Quotations_tbl[q].QuotationTitle = x.pick_list_id
                  /\ q > Len(LegacyQuotations)
    /\ \A p \in PicklistIds, f \in BuilderFaults :
          LET r == Call(p, f)
          IN  r.create_called =>
                  /\ ~r.success
                  /\ r.db.quotations = Quotations_tbl
                  /\ {x \in r.db.tracking : x.success}
                        = {x \in conversion_tracking : x.success}

\* a picklist has a successful record and its quotation, and the other
\* picklist has the failed record of an aborted transaction and no quotation
C38_Witness ==
    \E x, y \in conversion_tracking :
        /\ x.success /\ QuotationsOf(Quotations_tbl, x.pick_list_id) # {}
        /\ ~y.success /\ y.error_message = Error("Database error")
        /\ QuotationsOf(Quotations_tbl, y.pick_list_id) = {}
====
